---- MODULE Spec2Model ----
(***************************************************************************)
(* recruiter_agent: the scraping fallback controller                       *)
(* (job_scraper/linkedin_scraper.py), the company and recruiter fetchers   *)
(* (job_scraper/recruiter_scraper.py, recruiter_profile_scraper.py) and    *)
(* the Streamlit session of app.py.                                        *)
(*                                                                         *)
(* Python values.  A dict is a record holding exactly the keys the code    *)
(* sets (d.get(k) is Get(d, k, default)).  A str whose content is page or  *)
(* operator text is Str(n, w): n characters of which w are leading or      *)
(* trailing whitespace, which is all that len() and strip() read.  Short   *)
(* strings (method ids, error messages, URLs) are TLA+ strings.            *)
(***************************************************************************)
EXTENDS Integers, Sequences, FiniteSets, TLC

VARIABLES
    call,           \* arguments of the fetch_* call in progress
    fpc,            \* position inside that call
    attempted,      \* strategies invoked by that call, in order, with what each got and returned
    result,         \* local `result` of fetch_linkedin_job_enhanced (scrape_with_fallback's return)
    ret,            \* value returned by the fetch_* call
    session_state,  \* st.session_state
    pc,             \* position of the current script run of app.main
    inputs,         \* widget values read by the current run
    cleared_any,    \* history: the clearing loop of the current run emptied a generated artifact
    locals,         \* local variables of the loop of the call in progress
    contexts        \* history: the browsers, crawlers and tabs the call in progress opened

fetchVars == <<call, fpc, attempted, result, ret, locals, contexts>>
appVars == <<session_state, pc, inputs, cleared_any>>
vars == <<call, fpc, attempted, result, ret, locals, contexts, session_state, pc, inputs, cleared_any>>

---------------------------------------------------------------------------
(* Python values *)

\* None where a dict or a text is expected
None == [none |-> TRUE]
\* None where a short string is expected
NoneStr == "None"
\* {}
EmptyDict == << >>

Str(n, w) == [len |-> n, ws |-> w]
EmptyStr == Str(0, 0)
len(s) == s.len
strip(s) == Str(s.len - s.ws, 0)
\* `if s:` for a str-or-None
TruthyStr(s) == s # None /\ s.len > 0
\* a test that wants more than one character left after stripping
NonBlankMutant(s) == TruthyStr(s) /\ len(strip(s)) > 1

\* `s and s.strip()`
NonBlank(s) == TruthyStr(s) /\ TruthyStr(strip(s))

Has(d, k) == k \in DOMAIN d
Get(d, k, default) == IF k \in DOMAIN d THEN d[k] ELSE default

\* an exception propagating out of a call
Raised == [raised |-> TRUE]
IsRaised(x) == "raised" \in DOMAIN x

---------------------------------------------------------------------------
(* Bounds and program constants *)

\* whitespace characters around a page text
MaxPad == 1
\* linkedin_scraper.py: `> 200`
MinContentLen == 200
\* recruiter_scraper.py: `< 200`
CompanyMinLen == 200

CoreLens == {0, MinContentLen - 1, MinContentLen, MinContentLen + 1, 600}
PageTexts == {Str(n + w, w) : n \in CoreLens, w \in 0..MaxPad}
\* what the operator can type: nothing, one blank, one character, 500 characters
ManualTexts == {EmptyStr, Str(1, 1), Str(1, 0), Str(500, 0)}

\* crawler.arun(): raises, or a result with .success and .markdown
CrawlResponses(texts) ==
    {[raised |-> TRUE]} \cup
    {[raised |-> FALSE, success |-> FALSE, markdown |-> EmptyStr]} \cup
    {[raised |-> FALSE, success |-> TRUE, markdown |-> t] : t \in texts}

\* requests.get(): raises (timeout, connection), or a response with .status_code and .text
ApiResponses(texts) ==
    {[raised |-> TRUE]} \cup
    {[raised |-> FALSE, status_code |-> 403, text |-> EmptyStr]} \cup
    {[raised |-> FALSE, status_code |-> 200, text |-> t] : t \in texts}

JobUrlWithId == "https://www.linkedin.com/jobs/view/123"
JobUrlNoId == "https://www.linkedin.com/jobs/view/"
CompanyUrl == "https://www.linkedin.com/company/acme"
ProfileUrl == "https://www.linkedin.com/in/jane"
OtherCompanyUrl == "https://example.com/company/acme"
OtherProfileUrl == "https://example.com/in/jane"
Urls == {JobUrlWithId, JobUrlNoId, CompanyUrl, ProfileUrl, OtherCompanyUrl, OtherProfileUrl}

\* "/jobs/view/" in url
HasJobsView(url) == url \in {JobUrlWithId, JobUrlNoId}
\* "/company/" in url
HasCompany(url) == url \in {CompanyUrl, OtherCompanyUrl}
\* "/in/" in url
HasIn(url) == url \in {ProfileUrl, OtherProfileUrl}
\* "linkedin.com" in urlparse(url).netloc
OnLinkedIn(url) == url \in {JobUrlWithId, JobUrlNoId, CompanyUrl, ProfileUrl}

---------------------------------------------------------------------------
(* linkedin_scraper.py: the strategies *)

_extract_job_id(url) == IF url = JobUrlWithId THEN "123" ELSE NoneStr

JobApiUrl(job_id) == "https://www.linkedin.com/jobs-guest/jobs/api/jobPosting/123"

PublicCompanyUrl(url) ==
    IF url = CompanyUrl THEN "https://www.linkedin.com/company/acme?trk=public_profile"
    ELSE "https://example.com/company/acme?trk=public_profile"

\* a browser, crawler or tab that was opened, and whether it has been closed
Context(kind, closed) == [kind |-> kind, closed |-> closed]

\* `async with AsyncWebCrawler(config=browser_config) as crawler`: the crawler
\* is closed when the block is left, by a return or by an exception
AsyncWithCrawler == Context("crawler", TRUE)

\* r is what crawler.arun() does
_scrape_unauthenticated(url, scrape_type, r) ==
    IF r.raised THEN Raised
    ELSE IF r.success /\ len(strip(r.markdown)) > MinContentLen
         THEN [success |-> TRUE, content |-> r.markdown,
               method |-> "unauthenticated_direct", url |-> url]
         ELSE [success |-> FALSE, error |-> "Insufficient content or blocked"]

\* a method id without the "api_" prefix
ApiMethodMutant(endpoint_type) == endpoint_type

\* f"api_{endpoint_type}"
ApiMethod(endpoint_type) == "api_" \o endpoint_type

\* r is what requests.get() does
_fetch_api_endpoint(api_url, endpoint_type, r) ==
    IF r.raised THEN [success |-> FALSE, error |-> "API call failed"]
    ELSE IF r.status_code = 200
         THEN [success |-> TRUE, content |-> r.text,
               method |-> ApiMethod(endpoint_type), url |-> api_url]
         ELSE [success |-> FALSE, error |-> "API returned status"]

\* which backend _scrape_public_endpoint reaches for this url
PublicEndpointKind(url) ==
    IF HasJobsView(url)
    THEN (IF _extract_job_id(url) # NoneStr THEN "api" ELSE "none")
    ELSE IF HasCompany(url) THEN "crawl" ELSE "none"

_scrape_public_endpoint(url, scrape_type, r) ==
    CASE PublicEndpointKind(url) = "api" ->
            _fetch_api_endpoint(JobApiUrl(_extract_job_id(url)), "job_api", r)
      [] PublicEndpointKind(url) = "crawl" ->
            _scrape_unauthenticated(PublicCompanyUrl(url), "company", r)
      [] OTHER -> [success |-> FALSE, error |-> "No public endpoint available"]

_scrape_alternative_sources(url, scrape_type) ==
    [success |-> FALSE, error |-> "Alternative sources not implemented"]

_create_manual_fallback(url, scrape_type) ==
    [success |-> FALSE,
     error |-> "MANUAL_INPUT_REQUIRED",
     url |-> url,
     scrape_type |-> scrape_type,
     instructions |->
        [message |-> "Automated {scrape_type} scraping failed. Please provide the information manually.",
         steps |-> <<"1. Open the LinkedIn {scrape_type} URL in your browser",
                     "2. Copy the relevant {scrape_type} information",
                     "3. Paste it in the manual input field",
                     "4. Click 'Parse Information' to proceed">>]]

---------------------------------------------------------------------------
(* linkedin_scraper.py: scrape_with_fallback, one action per try block *)

\* `if result.get("success") and len(result.get("content", "")) > 200: return result`
Method1Returns(res) ==
    /\ ~IsRaised(res)
    /\ Get(res, "success", FALSE)
    /\ len(Get(res, "content", EmptyStr)) > MinContentLen

\* a Method 2 test with the flag inverted
Method2ReturnsMutant(res) == ~IsRaised(res) /\ ~Get(res, "success", FALSE)

\* `if result.get("success"): return result`
Method2Returns(res) == ~IsRaised(res) /\ Get(res, "success", FALSE)

\* `if result.get("success"): return result`
Method3Returns(res) == ~IsRaised(res) /\ Get(res, "success", FALSE)

Attempt(strategy, raw, res) == [strategy |-> strategy, raw |-> raw, ret |-> res]

ScrapeFns == {"fetch_linkedin_job_enhanced", "scrape_linkedin_company_enhanced",
              "scrape_linkedin_recruiter_enhanced"}

\* the scrape_type each caller of scrape_with_fallback passes
ScrapeType(fn) ==
    CASE fn = "fetch_linkedin_job_enhanced" -> "job"
      [] fn = "scrape_linkedin_company_enhanced" -> "company"
      [] OTHER -> "recruiter"

Method1(crawls) ==
    /\ fpc = "method1"
    /\ \E r \in crawls :
         LET res == _scrape_unauthenticated(call.url, ScrapeType(call.fn), r) IN
         /\ attempted' = Append(attempted, Attempt("_scrape_unauthenticated", r, res))
         /\ IF Method1Returns(res)
            THEN result' = res /\ fpc' = "scraped"
            ELSE result' = result /\ fpc' = "method2"
    /\ contexts' = Append(contexts, AsyncWithCrawler)
    /\ UNCHANGED <<call, ret, session_state, pc, inputs, cleared_any, locals>>

\* what the backend that Method 2 reaches for this url can answer
Method2Responses(url, crawls, apis) ==
    CASE PublicEndpointKind(url) = "api" -> apis
      [] PublicEndpointKind(url) = "crawl" -> crawls
      [] OTHER -> {None}

Method2(crawls, apis) ==
    /\ fpc = "method2"
    /\ \E r \in Method2Responses(call.url, crawls, apis) :
         LET res == _scrape_public_endpoint(call.url, ScrapeType(call.fn), r) IN
         /\ attempted' = Append(attempted, Attempt("_scrape_public_endpoint", r, res))
         /\ IF Method2Returns(res)
            THEN result' = res /\ fpc' = "scraped"
            ELSE result' = result /\ fpc' = "method3"
    /\ contexts' = IF PublicEndpointKind(call.url) = "crawl"
                   THEN Append(contexts, AsyncWithCrawler)
                   ELSE contexts
    /\ UNCHANGED <<call, ret, session_state, pc, inputs, cleared_any, locals>>

Method3 ==
    /\ fpc = "method3"
    /\ LET res == _scrape_alternative_sources(call.url, ScrapeType(call.fn)) IN
         /\ attempted' = Append(attempted, Attempt("_scrape_alternative_sources", None, res))
         /\ IF Method3Returns(res)
            THEN result' = res /\ fpc' = "scraped"
            ELSE result' = result /\ fpc' = "fallback"
    /\ UNCHANGED <<call, ret, session_state, pc, inputs, cleared_any, locals, contexts>>

\* `return self._create_manual_fallback(url, scrape_type)`
ManualFallback ==
    /\ fpc = "fallback"
    /\ result' = _create_manual_fallback(call.url, ScrapeType(call.fn))
    /\ fpc' = "scraped"
    /\ UNCHANGED <<call, attempted, ret, session_state, pc, inputs, cleared_any, locals, contexts>>

---------------------------------------------------------------------------
(* linkedin_scraper.py: fetch_linkedin_job_enhanced and its helpers *)

\* `pass`: returns None
format_manual_job_text(job_text, job_url) == None
\* `pass`: returns None
parse_manual_job_data(job_text, job_url) == None
\* `pass`: returns None
parse_job_content(content, job_url) == None

ManualJobResult(job_url, manual_job_text) ==
    [url |-> job_url,
     markdown |-> format_manual_job_text(manual_job_text, job_url),
     metadata |-> parse_manual_job_data(manual_job_text, job_url)]

\* the dict built from scrape_with_fallback's result
WrapJobResult(job_url, res) ==
    IF Get(res, "success", FALSE)
    THEN [url |-> job_url,
          markdown |-> res.content,
          metadata |-> parse_job_content(res.content, job_url),
          method |-> Get(res, "method", "unknown")]
    ELSE [url |-> job_url,
          error |-> Get(res, "error", "Unknown error"),
          markdown |-> EmptyStr,
          metadata |-> EmptyDict]

\* entry of fetch_linkedin_job_enhanced: manual text short-circuits the scraper
FetchJobEntry ==
    /\ fpc = "entry"
    /\ call.fn = "fetch_linkedin_job_enhanced"
    /\ IF NonBlank(call.manual)
       THEN ret' = ManualJobResult(call.url, call.manual) /\ fpc' = "returned"
       ELSE ret' = ret /\ fpc' = "method1"
    /\ UNCHANGED <<call, attempted, result, session_state, pc, inputs, cleared_any, locals, contexts>>

\* scrape_linkedin_company_enhanced, scrape_linkedin_recruiter_enhanced
ScrapeEnhancedEntry ==
    /\ fpc = "entry"
    /\ call.fn \in {"scrape_linkedin_company_enhanced", "scrape_linkedin_recruiter_enhanced"}
    /\ fpc' = "method1"
    /\ UNCHANGED <<call, attempted, result, ret, session_state, pc, inputs, cleared_any, locals, contexts>>

\* scrape_with_fallback has returned to its caller
ScrapeReturn ==
    /\ fpc = "scraped"
    /\ ret' = IF call.fn = "fetch_linkedin_job_enhanced"
              THEN WrapJobResult(call.url, result)
              ELSE result
    /\ fpc' = "returned"
    /\ UNCHANGED <<call, attempted, result, session_state, pc, inputs, cleared_any, locals, contexts>>

---------------------------------------------------------------------------
(* recruiter_scraper.py, recruiter_profile_scraper.py: the pattern loops *)

\* re.search(pattern, content) found nothing
NoMatch == NoneStr

\* a capture too long for every length test
LongCapture == "Acme Holdings Holdings Holdings Holdings Holdings Holdings Holdings Holdings Holdings Holdings Holdings Corp"

\* what match.group(1).strip() can be
Captures == {"A", "IT", "Acme Corp", "Acme Corp | LinkedIn", "Jane Doe profile", LongCapture}

\* len(capture)
CapLen(c) ==
    CASE c = "A" -> 1
      [] c = "IT" -> 2
      [] c = "Acme Corp" -> 9
      [] c = "Acme Corp | LinkedIn" -> 20
      [] c = "Jane Doe profile" -> 16
      [] OTHER -> 108

\* capture.replace(" | LinkedIn", "").strip()
RemoveLinkedInSuffix(c) == IF c = "Acme Corp | LinkedIn" THEN "Acme Corp" ELSE c

\* any(word in capture.lower() for word in ['linkedin', 'profile', 'company'])
HasProfileWord(c) == c \in {"Acme Corp | LinkedIn", "Jane Doe profile"}

\* what each pattern of a list of n patterns finds in the content, in the
\* order of the list: the content carries it under the name of the list; a
\* text of filler characters carries none and no pattern matches in it
Matches(content, list, n) ==
    IF Has(content, list) THEN content[list] ELSE [i \in 1..n |-> NoMatch]

\* a loop without `break`: the last pattern taken overwrites the earlier ones
FirstTakenMutant(taken) == CHOOSE i \in taken : \A j \in taken : j <= i

\* `break`: the loop ends at the first pattern whose capture is taken
FirstTaken(taken) == CHOOSE i \in taken : \A j \in taken : i <= j

\* `for pattern in patterns: match = re.search(...); if match: if accept:
\* value = finish(capture); break`: the value of the first pattern that
\* matches with a capture the test accepts, else the default
PatternLoop(matches, Accept(_), Finish(_), default) ==
    LET taken == {i \in 1..Len(matches) : matches[i] # NoMatch /\ Accept(matches[i])} IN
    IF taken = {} THEN default
    ELSE Finish(matches[FirstTaken(taken)])

\* `for pattern in patterns: match = re.search(...); if match: value =
\* finish(capture); break`: the value of the first pattern that matches
FirstMatch(matches, default) ==
    PatternLoop(matches, LAMBDA c : TRUE, LAMBDA c : c, default)

---------------------------------------------------------------------------
(* recruiter_scraper.py: fetch_recruiter_info *)

\* characters of the f-string template of format_manual_company_text
ManualCompanyTemplateLen == 104

\* the template around company_text.strip(), ending in a newline (the
\* interpolated name and URL only add characters and are left out of the count)
format_manual_company_text(company_text, company_url) ==
    Str(ManualCompanyTemplateLen + len(strip(company_text)), 1)

\* the line extract_company_name_from_text returns as the name
FirstLine == "first line of the text"

\* extract_company_name_from_text: the first of the first three lines with
\* more than 2 and fewer than 100 characters (a text here is one line)
extract_company_name_from_text(text) ==
    IF len(strip(text)) > 2 /\ len(strip(text)) < 100
    THEN FirstLine
    ELSE "Company Name (Manual Input)"

parse_manual_company_text(company_text, company_url) ==
    [company_name |-> extract_company_name_from_text(company_text),
     industry |-> FirstMatch(Matches(company_text, "industry_matches", 3),
                             "Industry (Manual Input)"),
     company_size |-> FirstMatch(Matches(company_text, "size_matches", 3),
                                 "Size (Manual Input)"),
     headquarters |-> FirstMatch(Matches(company_text, "location_matches", 4),
                                 "Location (Manual Input)"),
     founded |-> FirstMatch(Matches(company_text, "founded_matches", 4),
                            "Founded (Manual Input)"),
     source_url |-> company_url,
     source |-> "Manual input"]

\* the company name loop of parse_company_content
company_name_of(markdown_content) ==
    PatternLoop(Matches(markdown_content, "name_matches", 4),
                LAMBDA c : CapLen(c) > 1 /\ CapLen(c) < 100,
                LAMBDA c : RemoveLinkedInSuffix(c),
                "Unknown Company")

\* the industry loop of parse_company_content
industry_of(markdown_content) ==
    PatternLoop(Matches(markdown_content, "industry_matches", 3),
                LAMBDA c : CapLen(c) > 3 /\ CapLen(c) < 50,
                LAMBDA c : c,
                "Not specified")

\* the headquarters loop of parse_company_content
headquarters_of(markdown_content) ==
    PatternLoop(Matches(markdown_content, "location_matches", 4),
                LAMBDA c : CapLen(c) > 2 /\ CapLen(c) < 100,
                LAMBDA c : c,
                "Not specified")

parse_company_content(markdown_content, company_url) ==
    [company_name |-> company_name_of(markdown_content),
     industry |-> industry_of(markdown_content),
     company_size |-> FirstMatch(Matches(markdown_content, "size_matches", 3),
                                 "Not specified"),
     headquarters |-> headquarters_of(markdown_content),
     founded |-> FirstMatch(Matches(markdown_content, "founded_matches", 4),
                            "Not specified"),
     source_url |-> company_url]

is_valid_linkedin_company_url(url) == OnLinkedIn(url) /\ HasCompany(url)

create_manual_company_input_prompt(company_url, error_message) ==
    [url |-> company_url,
     markdown |-> EmptyStr,
     metadata |-> EmptyDict,
     error |-> "MANUAL_INPUT_REQUIRED",
     original_error |-> error_message,
     instructions |->
        [message |-> "Direct company scraping failed. Please copy and paste the company information manually.",
         steps |-> <<"1. Open the LinkedIn company page in your browser",
                     "2. Copy the company description and key details",
                     "3. Paste it in the manual input field",
                     "4. Click 'Parse Company Information' to proceed">>]]

\* r is what crawler.arun() does; the whole body is inside try/except
scrape_linkedin_company(company_url, r) ==
    IF r.raised
    THEN [url |-> company_url, error |-> "Company scraping exception",
          markdown |-> EmptyStr, metadata |-> EmptyDict]
    ELSE IF r.success
         THEN IF len(strip(r.markdown)) < CompanyMinLen
              THEN [url |-> company_url,
                    error |-> "Company page content too short - likely blocked or login required"]
              ELSE [url |-> company_url, markdown |-> r.markdown,
                    metadata |-> parse_company_content(r.markdown, company_url)]
         ELSE [url |-> company_url, error |-> "Company scraping failed",
               markdown |-> EmptyStr, metadata |-> EmptyDict]

\* `if result.get("error")`: a non-empty error string
HasError(d) == Has(d, "error") /\ d.error # ""

FetchCompany(crawls) ==
    /\ fpc = "entry"
    /\ call.fn = "fetch_recruiter_info"
    /\ IF NonBlank(call.manual)
       THEN /\ ret' = [url |-> call.url,
                       markdown |-> format_manual_company_text(call.manual, call.url),
                       metadata |-> parse_manual_company_text(call.manual, call.url)]
            /\ attempted' = attempted
       ELSE IF ~is_valid_linkedin_company_url(call.url)
       THEN /\ ret' = create_manual_company_input_prompt(call.url, "Invalid LinkedIn company URL")
            /\ attempted' = attempted
       ELSE \E r \in crawls :
              LET res == scrape_linkedin_company(call.url, r) IN
              /\ attempted' = Append(attempted, Attempt("scrape_linkedin_company", r, res))
              /\ ret' = IF HasError(res)
                        THEN create_manual_company_input_prompt(call.url, res.error)
                        ELSE res
    /\ fpc' = "returned"
    /\ UNCHANGED <<call, result, session_state, pc, inputs, cleared_any, locals, contexts>>

---------------------------------------------------------------------------
(* recruiter_profile_scraper.py: fetch_recruiter_profile *)

\* characters of the f-string template of format_manual_recruiter_text
ManualRecruiterTemplateLen == 119

format_manual_recruiter_text(recruiter_text, recruiter_url) ==
    Str(ManualRecruiterTemplateLen + len(strip(recruiter_text)), 1)

\* extract_company_from_manual_text: the first capture longer than 2
extract_company_from_manual_text(text) ==
    PatternLoop(Matches(text, "company_matches", 3),
                LAMBDA c : CapLen(c) > 2,
                LAMBDA c : c,
                "Company (Manual Input)")

parse_manual_recruiter_text(recruiter_text, recruiter_url) ==
    [current_company |-> extract_company_from_manual_text(recruiter_text),
     location |-> FirstMatch(Matches(recruiter_text, "location_matches", 3),
                             "Location (Manual Input)"),
     source_url |-> recruiter_url,
     source |-> "Manual input"]

\* the name loop of parse_authenticated_recruiter_profile
recruiter_name_of(markdown_content) ==
    PatternLoop(Matches(markdown_content, "name_matches", 4),
                LAMBDA c : CapLen(c) > 2 /\ CapLen(c) < 50 /\ ~HasProfileWord(c),
                LAMBDA c : RemoveLinkedInSuffix(c),
                "Recruiter")

\* the location loop of parse_authenticated_recruiter_profile
recruiter_location_of(markdown_content) ==
    PatternLoop(Matches(markdown_content, "location_matches", 5),
                LAMBDA c : CapLen(c) > 2 /\ CapLen(c) < 50,
                LAMBDA c : c,
                "Not specified")

\* the company a position match names: group(2) of the first pattern, or what
\* follows " at " in the capture of a later one
CompanyOf(c) ==
    IF c = "Recruiter at Acme Corp" THEN "Acme Corp" ELSE "Not specified"

\* the position loop of parse_authenticated_recruiter_profile: the first
\* pattern that matches decides position and company
current_company_of(markdown_content) ==
    LET m == FirstMatch(Matches(markdown_content, "position_matches", 5), NoMatch) IN
    IF m = NoMatch THEN "Not specified" ELSE CompanyOf(m)

parse_authenticated_recruiter_profile(markdown_content, recruiter_url) ==
    [recruiter_name |-> recruiter_name_of(markdown_content),
     current_company |-> current_company_of(markdown_content),
     location |-> recruiter_location_of(markdown_content),
     source_url |-> recruiter_url,
     authentication_status |-> "Authenticated"]

is_valid_linkedin_profile_url(url) == OnLinkedIn(url) /\ HasIn(url)

create_manual_recruiter_input_prompt(recruiter_url, error_message) ==
    [url |-> recruiter_url,
     markdown |-> EmptyStr,
     metadata |-> EmptyDict,
     error |-> "MANUAL_INPUT_REQUIRED",
     original_error |-> error_message,
     instructions |->
        [message |-> "Authenticated scraping failed. Please copy and paste the recruiter's profile information manually.",
         steps |-> <<"1. Open the recruiter's LinkedIn profile in your browser",
                     "2. Copy their name, current position, background, and specializations",
                     "3. Paste it in the manual input field",
                     "4. Click 'Parse Recruiter Profile' to proceed">>]]

\* the shortest marker is_authenticated_content looks for ("Follow")
MinMarkerLen == 6

\* a profile page as the crawler returns it: the crawl response plus whether
\* the markdown holds a signed-in marker and whether it holds a sign-in-wall marker
ProfileResponses(texts) ==
    {[raised |-> TRUE]} \cup
    {[raised |-> FALSE, success |-> FALSE, markdown |-> EmptyStr,
      signed_in_marker |-> FALSE, wall_marker |-> FALSE]} \cup
    {r \in [raised : {FALSE}, success : {TRUE}, markdown : texts,
            signed_in_marker : BOOLEAN, wall_marker : BOOLEAN] :
        (r.signed_in_marker \/ r.wall_marker) => len(strip(r.markdown)) >= MinMarkerLen}

\* has_authenticated and not has_public
is_authenticated_content(r) == r.signed_in_marker /\ ~r.wall_marker

\* auth_state is load_linkedin_auth_state(): None, or the stored cookies
scrape_linkedin_recruiter_profile(recruiter_url, auth_state, r) ==
    IF auth_state = None
    THEN [url |-> recruiter_url, error |-> "No authentication state found - please run extract_linkedin_auth.js"]
    ELSE IF r.raised
    THEN [url |-> recruiter_url, error |-> "Recruiter profile scraping exception",
          markdown |-> EmptyStr, metadata |-> EmptyDict]
    ELSE IF r.success
         THEN IF is_authenticated_content(r)
              THEN [url |-> recruiter_url, markdown |-> r.markdown,
                    metadata |-> parse_authenticated_recruiter_profile(r.markdown, recruiter_url),
                    authenticated |-> TRUE]
              ELSE [url |-> recruiter_url,
                    error |-> "Authentication failed - only public profile data available"]
         ELSE [url |-> recruiter_url, error |-> "Recruiter profile scraping failed",
               markdown |-> EmptyStr, metadata |-> EmptyDict]

\* linkedin_storage_state.json: absent, or a cookie bundle
AuthStates == {None, [cookies |-> "li_at"]}

FetchRecruiter(profiles) ==
    /\ fpc = "entry"
    /\ call.fn = "fetch_recruiter_profile"
    /\ IF NonBlank(call.manual)
       THEN /\ ret' = [url |-> call.url,
                       markdown |-> format_manual_recruiter_text(call.manual, call.url),
                       metadata |-> parse_manual_recruiter_text(call.manual, call.url)]
            /\ attempted' = attempted
       ELSE IF ~is_valid_linkedin_profile_url(call.url)
       THEN /\ ret' = create_manual_recruiter_input_prompt(call.url, "Invalid LinkedIn profile URL")
            /\ attempted' = attempted
       ELSE \E auth_state \in AuthStates :
            \E r \in (IF auth_state = None THEN {None} ELSE profiles) :
              LET res == scrape_linkedin_recruiter_profile(call.url, auth_state, r) IN
              /\ attempted' = Append(attempted,
                                     Attempt("scrape_linkedin_recruiter_profile", r, res))
              /\ ret' = IF HasError(res)
                        THEN create_manual_recruiter_input_prompt(call.url, res.error)
                        ELSE res
    /\ fpc' = "returned"
    /\ UNCHANGED <<call, result, session_state, pc, inputs, cleared_any, locals, contexts>>

---------------------------------------------------------------------------
(* app.py: the session *)

\* session_state holds the keys of init_session_state. main() also copies the
\* company and recruiter URL widgets into st.session_state on every run
\* (company_url, recruiter_url); only render_progress_indicator reads them and
\* they are not part of session_state here. A widget interaction reruns the
\* script, so what a click may do is decided by the session it finds.

default_states ==
    [cv_struct |-> None,
     job_struct |-> None,
     company_info |-> None,
     recruiter_profile |-> None,
     match_results |-> None,
     cover_letter |-> None,
     recruiter_message |-> None,
     job_manual_required |-> FALSE,
     company_manual_required |-> FALSE,
     recruiter_manual_required |-> FALSE,
     manual_job_text |-> None,
     manual_company_text |-> None,
     manual_recruiter_text |-> None,
     analysis_step |-> "upload",
     scraping_method |-> NoneStr]

\* `if key not in st.session_state: st.session_state[key] = default_value`
init_session_state(ss) ==
    [key \in DOMAIN default_states \cup DOMAIN ss |->
        IF key \in DOMAIN ss THEN ss[key] ELSE default_states[key]]

\* an `if d:` that every value passes
TruthyDictMutant(d) == TRUE

\* `if d:` for a dict-or-None
TruthyDict(d) == d # None /\ d # EmptyDict

\* the slots of the structured inputs and of what is generated from them
UpstreamSlots == {"cv_struct", "job_struct", "company_info", "recruiter_profile"}
ArtifactSlots == {"match_results", "cover_letter", "recruiter_message"}

\* a clearing list that leaves out cover_letter
ClearedKeysMutant == {"cv_struct", "job_struct", "company_info", "recruiter_profile",
                      "match_results", "recruiter_message"}

\* the keys the Analyze handler sets to None before it starts
ClearedKeys == {"cv_struct", "job_struct", "company_info", "recruiter_profile",
                "match_results", "cover_letter", "recruiter_message"}

\* `for key in [...]: st.session_state[key] = None`
ClearPreviousResults(ss) ==
    [key \in DOMAIN ss |->
        IF key \in ClearedKeys THEN None
        ELSE IF key = "scraping_method" THEN NoneStr
        ELSE ss[key]]

\* widget values the operator can have entered
CvFiles == {NoneStr, "cv.pdf"}
JobUrlInputs == {"", JobUrlWithId, JobUrlNoId, CompanyUrl}
CompanyUrlInputs == {"", CompanyUrl, OtherCompanyUrl}
RecruiterUrlInputs == {"", ProfileUrl, OtherProfileUrl}

\* page texts the sources answer with while the app runs: empty, or long enough
AppTexts == {EmptyStr, Str(600, 0)}
\* what the operator pastes into a manual text area: one blank, or 500 characters
AppManualTexts == {Str(1, 1), Str(500, 0)}
\* what the crawler, the jobs-guest API and the profile page answer while the app runs
AppCrawls == CrawlResponses(AppTexts)
AppApis == ApiResponses(AppTexts)
AppProfiles == ProfileResponses(AppTexts)

NoCall ==
    /\ call' = None
    /\ fpc' = "idle"
    /\ attempted' = << >>
    /\ result' = None
    /\ ret' = None
    /\ locals' = EmptyDict
    /\ contexts' = << >>

StartCall(fn, url, manual) ==
    /\ call' = [fn |-> fn, url |-> url, manual |-> manual]
    /\ fpc' = "entry"
    /\ attempted' = << >>
    /\ result' = None
    /\ ret' = None
    /\ locals' = EmptyDict
    /\ contexts' = << >>

\* "Start Enhanced Analysis" clicked: the input check and the clearing loop
ClickAnalyze ==
    /\ pc = "idle"
    /\ \E cv_file \in CvFiles, job_url \in JobUrlInputs,
          company_url \in CompanyUrlInputs, recruiter_url \in RecruiterUrlInputs :
         IF cv_file = NoneStr \/ job_url = ""
         THEN UNCHANGED <<session_state, pc, inputs, cleared_any, locals, contexts>>
         ELSE /\ session_state' = ClearPreviousResults(session_state)
              /\ inputs' = [cv_file |-> cv_file, job_url |-> job_url,
                            company_url |-> company_url, recruiter_url |-> recruiter_url]
              /\ cleared_any' = (\E key \in ArtifactSlots : session_state[key] # None)
              /\ pc' = "cv"
    /\ UNCHANGED <<call, fpc, attempted, result, ret, locals, contexts>>

\* what process_cv can return: None (read_cv or structure_cv raised), the
\* parsed dict, an empty dict, or structure_with_llm's error dict
CvOutcomes == {None, [professional_summary |-> "cv"], EmptyDict, [error |-> "llm"]}

\* `st.session_state.cv_struct = process_cv(cv_file)`, then `if not cv_struct: st.stop()`
ProcessCv ==
    /\ pc = "cv"
    /\ \E out \in CvOutcomes :
         /\ session_state' = [session_state EXCEPT !.cv_struct = out]
         /\ IF TruthyDict(out)
            THEN pc' = "job" /\ inputs' = inputs /\ cleared_any' = cleared_any
            ELSE pc' = "idle" /\ inputs' = None /\ cleared_any' = FALSE
    /\ UNCHANGED <<call, fpc, attempted, result, ret, locals, contexts>>

\* process_job calls fetch_linkedin_job_enhanced(job_url, manual_job_text)
ProcessJobCall ==
    /\ pc = "job"
    /\ StartCall("fetch_linkedin_job_enhanced", inputs.job_url, session_state.manual_job_text)
    /\ pc' = "job_wait"
    /\ UNCHANGED <<session_state, inputs, cleared_any>>

\* what parse_job_description can do: raise (ChatOpenAI() is outside its try),
\* return the parsed dict, an empty dict, or its error dict
JobParseOutcomes == {Raised, [title |-> "job"], EmptyDict, [error |-> "failed to parse JSON"]}

\* a process_job that returns the fetched dict when the structuring raises
ProcessJobResultMutant(ss, raw, parsed) ==
    IF HasError(raw)
    THEN [value |-> None, ss |-> [ss EXCEPT !.job_manual_required = TRUE]]
    ELSE [value |-> IF IsRaised(parsed) THEN raw ELSE parsed, ss |-> ss]

\* process_job after the fetch: the value it returns and the session it leaves
ProcessJobResult(ss, raw, parsed) ==
    IF Get(raw, "error", NoneStr) = "MANUAL_INPUT_REQUIRED"
    THEN [value |-> None, ss |-> [ss EXCEPT !.job_manual_required = TRUE]]
    ELSE IF HasError(raw) /\ raw.error # "MANUAL_INPUT_REQUIRED"
    THEN [value |-> None, ss |-> [ss EXCEPT !.job_manual_required = TRUE]]
    ELSE LET tracked == IF Has(raw, "method") /\ raw.method # ""
                        THEN [ss EXCEPT !.scraping_method = raw.method]
                        ELSE ss
         IN IF IsRaised(parsed)
            THEN [value |-> None, ss |-> [tracked EXCEPT !.job_manual_required = TRUE]]
            ELSE [value |-> parsed, ss |-> tracked]

\* the rest of process_job, `st.session_state.job_struct = ...`, `if not job_struct: st.stop()`
ProcessJobReturn ==
    /\ pc = "job_wait"
    /\ fpc = "returned"
    /\ \E parsed \in JobParseOutcomes :
         LET out == ProcessJobResult(session_state, ret, parsed) IN
         /\ session_state' = [out.ss EXCEPT !.job_struct = out.value]
         /\ IF TruthyDict(out.value)
            THEN pc' = "company" /\ inputs' = inputs /\ cleared_any' = cleared_any
            ELSE pc' = "idle" /\ inputs' = None /\ cleared_any' = FALSE
    /\ NoCall

\* `if company_url:` ... process_company calls fetch_recruiter_info_sync
ProcessCompanyCall ==
    /\ pc = "company"
    /\ IF inputs.company_url = ""
       THEN /\ pc' = "recruiter"
            /\ UNCHANGED <<call, fpc, attempted, result, ret, locals, contexts>>
       ELSE /\ StartCall("fetch_recruiter_info", inputs.company_url,
                         session_state.manual_company_text)
            /\ pc' = "company_wait"
    /\ UNCHANGED <<session_state, inputs, cleared_any>>

\* process_company after the fetch
ProcessCompanyResult(ss, raw) ==
    IF Get(raw, "error", NoneStr) = "MANUAL_INPUT_REQUIRED"
    THEN [value |-> None, ss |-> [ss EXCEPT !.company_manual_required = TRUE]]
    ELSE [value |-> raw, ss |-> ss]

\* `st.session_state.company_info = process_company(company_url)`
ProcessCompanyReturn ==
    /\ pc = "company_wait"
    /\ fpc = "returned"
    /\ LET out == ProcessCompanyResult(session_state, ret) IN
         session_state' = [out.ss EXCEPT !.company_info = out.value]
    /\ pc' = "recruiter"
    /\ NoCall
    /\ UNCHANGED <<inputs, cleared_any>>

\* `if recruiter_url:` ... process_recruiter calls fetch_recruiter_profile_sync
ProcessRecruiterCall ==
    /\ pc = "recruiter"
    /\ IF inputs.recruiter_url = ""
       THEN /\ pc' = "match"
            /\ UNCHANGED <<call, fpc, attempted, result, ret, locals, contexts>>
       ELSE /\ StartCall("fetch_recruiter_profile", inputs.recruiter_url,
                         session_state.manual_recruiter_text)
            /\ pc' = "recruiter_wait"
    /\ UNCHANGED <<session_state, inputs, cleared_any>>

\* what parse_recruiter_profile can do: raise (ChatOpenAI() is outside its
\* try), return the validated dict, or its error dict
RecruiterParseOutcomes ==
    {Raised, [recruiter_name |-> "Jane"], [error |-> "failed to parse JSON"]}

\* enhance_recruiter_data_with_insights: adds personalization_insights
enhance_recruiter_data_with_insights(recruiter_data, job_context) ==
    IF HasError(recruiter_data) THEN recruiter_data
    ELSE [recruiter_name |-> recruiter_data.recruiter_name,
          personalization_insights |-> [communication_style |-> "professional"]]

\* process_recruiter after the fetch
ProcessRecruiterResult(ss, raw, parsed) ==
    IF Get(raw, "error", NoneStr) = "MANUAL_INPUT_REQUIRED"
    THEN [value |-> None, ss |-> [ss EXCEPT !.recruiter_manual_required = TRUE]]
    ELSE IF ~TruthyStr(Get(raw, "markdown", None))
    THEN [value |-> raw, ss |-> ss]
    ELSE IF IsRaised(parsed)
    THEN [value |-> None, ss |-> ss]
    ELSE IF HasError(parsed)
    THEN [value |-> [url |-> raw.url, markdown |-> raw.markdown, metadata |-> raw.metadata,
                     parsed_data |-> Get(raw, "metadata", EmptyDict)],
          ss |-> ss]
    ELSE [value |-> [url |-> raw.url, markdown |-> raw.markdown, metadata |-> raw.metadata,
                     parsed_data |-> IF TruthyDict(ss.job_struct)
                                     THEN enhance_recruiter_data_with_insights(parsed, ss.job_struct)
                                     ELSE parsed,
                     summary |-> "summary"],
          ss |-> ss]

\* `st.session_state.recruiter_profile = process_recruiter(recruiter_url)`
ProcessRecruiterReturn ==
    /\ pc = "recruiter_wait"
    /\ fpc = "returned"
    /\ \E parsed \in RecruiterParseOutcomes :
         LET out == ProcessRecruiterResult(session_state, ret, parsed) IN
         session_state' = [out.ss EXCEPT !.recruiter_profile = out.value]
    /\ pc' = "match"
    /\ NoCall
    /\ UNCHANGED <<inputs, cleared_any>>

\* what match_cv_to_job can return: the parsed dict, or one of its error dicts
MatchOutcomes == {[overall_match_score |-> 80], [error |-> "invalid-json"]}

\* `st.session_state.match_results = match_cv_to_job(cv_struct, job_struct)`; the run ends
Matching ==
    /\ pc = "match"
    /\ \E out \in MatchOutcomes :
         session_state' = [session_state EXCEPT !.match_results = out]
    /\ pc' = "idle"
    /\ inputs' = None /\ cleared_any' = FALSE
    /\ UNCHANGED <<call, fpc, attempted, result, ret, locals, contexts>>

\* a section that is rendered whatever the session holds
CommunicationShownMutant(ss) == TRUE

\* render_results, render_communication_section: `if not (cv_struct and job_struct): return`
CommunicationShown(ss) == TruthyDict(ss.cv_struct) /\ TruthyDict(ss.job_struct)

\* what generate_cover_letter and generate_message can return: a non-empty text
\* (response.content.strip() or the "Error generating ..." message), or ""
GeneratedTexts == {Str(500, 0), EmptyStr}

\* "Generate Cover Letter" clicked
GenerateCoverLetter ==
    /\ pc = "idle"
    /\ CommunicationShown(session_state)
    /\ \E text \in GeneratedTexts :
         session_state' = [session_state EXCEPT !.cover_letter = text]
    /\ UNCHANGED <<pc, inputs, cleared_any, call, fpc, attempted, result, ret, locals, contexts>>

\* "Generate Recruiter Message" clicked
GenerateRecruiterMessage ==
    /\ pc = "idle"
    /\ CommunicationShown(session_state)
    /\ \E text \in GeneratedTexts :
         session_state' = [session_state EXCEPT !.recruiter_message = text]
    /\ UNCHANGED <<pc, inputs, cleared_any, call, fpc, attempted, result, ret, locals, contexts>>

\* a "Parse ..." button of render_manual_input_sections clicked with `text` in its text area
SubmitManual(ss, flag, slot, text) ==
    IF TruthyStr(strip(text))
    THEN [ss EXCEPT ![slot] = text, ![flag] = FALSE]
    ELSE ss

\* "Parse Job Description" clicked
ParseJob(texts) ==
    /\ pc = "idle"
    /\ session_state.job_manual_required
    /\ \E text \in texts :
         /\ session_state' = SubmitManual(session_state, "job_manual_required",
                                          "manual_job_text", text)
         /\ pc' = IF TruthyStr(strip(text)) THEN "manual_rerun" ELSE "idle"
    /\ UNCHANGED <<inputs, cleared_any, call, fpc, attempted, result, ret, locals, contexts>>

\* "Parse Company Information" clicked
ParseCompany(texts) ==
    /\ pc = "idle"
    /\ session_state.company_manual_required
    /\ \E text \in texts :
         /\ session_state' = SubmitManual(session_state, "company_manual_required",
                                          "manual_company_text", text)
         /\ pc' = IF TruthyStr(strip(text)) THEN "manual_rerun" ELSE "idle"
    /\ UNCHANGED <<inputs, cleared_any, call, fpc, attempted, result, ret, locals, contexts>>

\* "Parse Recruiter Profile" clicked
ParseRecruiter(texts) ==
    /\ pc = "idle"
    /\ session_state.recruiter_manual_required
    /\ \E text \in texts :
         /\ session_state' = SubmitManual(session_state, "recruiter_manual_required",
                                          "manual_recruiter_text", text)
         /\ pc' = IF TruthyStr(strip(text)) THEN "manual_rerun" ELSE "idle"
    /\ UNCHANGED <<inputs, cleared_any, call, fpc, attempted, result, ret, locals, contexts>>

\* a Reset that deletes only what Analyze clears
DeletedKeysMutant(ss) == (DOMAIN ss) \cap ClearedKeys

\* `list(st.session_state.keys())`: the keys the Reset handler deletes
DeletedKeys(ss) == DOMAIN ss

\* `for key in list(st.session_state.keys()): del st.session_state[key]`
DeleteAllKeys(ss) == [key \in (DOMAIN ss) \ DeletedKeys(ss) |-> ss[key]]

\* "Reset All Data" clicked: every key deleted, then st.rerun()
ResetAllData ==
    /\ pc = "idle"
    /\ session_state' = DeleteAllKeys(session_state)
    /\ pc' = "reset_rerun"
    /\ UNCHANGED <<inputs, cleared_any, call, fpc, attempted, result, ret, locals, contexts>>

\* the run that st.rerun() starts: main() calls init_session_state and no button is clicked
Rerun ==
    /\ pc \in {"manual_rerun", "reset_rerun"}
    /\ session_state' = init_session_state(session_state)
    /\ pc' = "idle"
    /\ UNCHANGED <<inputs, cleared_any, call, fpc, attempted, result, ret, locals, contexts>>

---------------------------------------------------------------------------
(* recruiter_scraper.py, recruiter_profile_scraper.py: the parsers called with a page *)

\* what the n patterns of a list can find in a page
MatchTables(n) == [1..n -> Captures \cup {NoMatch}]

\* a company page in which the patterns of one list match
CompanyPages ==
    {[len |-> 300, ws |-> 0, name_matches |-> m] : m \in MatchTables(4)}
    \cup {[len |-> 300, ws |-> 0, industry_matches |-> m] : m \in MatchTables(3)}
    \cup {[len |-> 300, ws |-> 0, location_matches |-> m] : m \in MatchTables(4)}

\* a recruiter profile in which the patterns of one list match
RecruiterPages ==
    {[len |-> 300, ws |-> 0, name_matches |-> m] : m \in MatchTables(4)}
    \cup {[len |-> 300, ws |-> 0, location_matches |-> m] : m \in MatchTables(5)}

ParserCalls ==
    {[fn |-> "parse_company_content", content |-> c, url |-> CompanyUrl] : c \in CompanyPages}
    \cup {[fn |-> "parse_authenticated_recruiter_profile", content |-> c, url |-> ProfileUrl] :
            c \in RecruiterPages}

\* parse_company_content / parse_authenticated_recruiter_profile called with the page
ParseContent ==
    /\ call.fn \in {"parse_company_content", "parse_authenticated_recruiter_profile"}
    /\ fpc = "entry"
    /\ ret' = IF call.fn = "parse_company_content"
              THEN parse_company_content(call.content, call.url)
              ELSE parse_authenticated_recruiter_profile(call.content, call.url)
    /\ fpc' = "returned"
    /\ UNCHANGED <<call, attempted, result, locals, contexts, appVars>>

---------------------------------------------------------------------------
(* linkedin_profile_scraper.py: the credential-login profile scraper *)

\* the page as check_auth_status sees it: whether one of the three signed-in
\* selectors is visible, whether one of the three sign-in selectors is visible,
\* and which kind of address page.url is ("login" stands for an address with
\* "/login" or "/checkpoint")
PageViews == [signed_in_marker : BOOLEAN, wall_marker : BOOLEAN,
              url_kind : {"profile", "login", "authwall"}]

\* check_auth_status(page): "True", "False" or NoneStr. The signed-in
\* selectors come first in auth_indicators, so one of them visible returns True
\* before any sign-in selector is looked at.
check_auth_status(page) ==
    IF page.signed_in_marker THEN "True"
    ELSE IF page.wall_marker THEN "False"
    ELSE IF page.url_kind \in {"authwall", "login"} THEN "False"
    ELSE NoneStr

\* the dict `except Exception` builds
ScrapingFailed(profile_url) ==
    [error |-> "Scraping failed", profile_url |-> profile_url]

\* the body of scrape_linkedin_profile_enhanced after page.goto: first is the
\* page after navigation, after_login the page once a login has gone through,
\* tab_login and modal_login whether enhanced_tab_login / enhanced_modal_login
\* return True, main_found whether wait_for_selector("main") returns, html the
\* text of page.content(). The result holds the page whose final check decided
\* and the dict returned.
ScrapeProfilePage(profile_url, first, tab_login, modal_login, after_login, main_found, html) ==
    LET auth_status == check_auth_status(first)
        needs_tab == first.url_kind = "login"
        logged_in == IF needs_tab THEN tab_login
                     ELSE IF auth_status = "False" THEN modal_login \/ tab_login
                     ELSE TRUE
        final == IF needs_tab \/ auth_status = "False" THEN after_login ELSE first
    IN  IF ~logged_in
        THEN [page |-> first, ret |-> ScrapingFailed(profile_url)]
        ELSE IF check_auth_status(final) = "False"
        THEN [page |-> final, ret |-> ScrapingFailed(profile_url)]
        ELSE IF ~main_found
        THEN [page |-> final, ret |-> ScrapingFailed(profile_url)]
        ELSE [page |-> final,
              ret |-> [extraction_method |-> "enhanced_beautifulsoup",
                       metadata |-> [profile_url |-> profile_url,
                                     html_length |-> len(html),
                                     extraction_tool |-> "enhanced_linkedin_scraper"]]]

\* the texts page.content() can hold
HtmlTexts == {EmptyStr, Str(600, 0)}

\* max_retries of enhanced_tab_login and of enhanced_modal_login
TabMaxRetries == 3
ModalMaxRetries == 2

\* what one iteration of the loop of enhanced_tab_login runs into
TabAttempts == {"new_page_raises", "goto_raises", "fill_fails", "timeout", "navigated"}

\* what one iteration of the loop of enhanced_modal_login runs into
ModalAttempts == {"click_fails", "fill_fails", "timeout", "navigated"}

\* `tab = await ctx.new_page()` returned a tab
TabOpened(o) == o # "new_page_raises"

\* a loop that leaves the tab open
TabClosedMutant(tab) == FALSE

\* `finally: if tab: await tab.close()`
TabClosed(tab) == tab

\* a loop that never reaches `return True`
LoginReturnsMutant(o) == FALSE

\* `async with ...expect_navigation(...)` came back without PWTimeout: `return True`
LoginReturns(o) == o = "navigated"

\* `finally: await browser.close()`
CloseBrowser(ctxs) ==
    [i \in 1..Len(ctxs) |->
        IF ctxs[i].kind = "browser" THEN Context("browser", TRUE) ELSE ctxs[i]]

\* scrape_linkedin_profile_enhanced(profile_url, manual_input) up to the first
\* check_auth_status: the two early returns, the browser launch, the context
\* and the page (which are outside the try block: an exception there leaves
\* the function, and `async with async_playwright()` stops the browser), and
\* the choice of the login to run
ScrapeProfileEnhanced ==
    /\ fpc = "entry"
    /\ call.fn = "scrape_linkedin_profile_enhanced"
    /\ IF TruthyStr(call.manual)
       THEN /\ ret' = [markdown |-> call.manual, extraction_method |-> "manual_input",
                       profile_url |-> call.url]
            /\ fpc' = "returned"
            /\ UNCHANGED <<locals, contexts>>
       ELSE \E credentials \in BOOLEAN :
            IF ~credentials
            THEN /\ ret' = [error |-> "LinkedIn credentials not found",
                            message |-> "Set LINKEDIN_EMAIL and LINKEDIN_PASSWORD environment variables"]
                 /\ fpc' = "returned"
                 /\ UNCHANGED <<locals, contexts>>
            ELSE \E new_context_raises \in BOOLEAN, first \in PageViews :
                 IF new_context_raises
                 THEN /\ ret' = Raised
                      /\ fpc' = "returned"
                      /\ contexts' = Append(contexts, Context("browser", TRUE))
                      /\ locals' = locals
                 ELSE /\ ret' = ret
                      /\ contexts' = Append(contexts, Context("browser", FALSE))
                      /\ locals' = [first |-> first, modal |-> << >>, tab |-> << >>,
                                    modal_login |-> FALSE, tab_login |-> FALSE]
                      /\ fpc' = IF first.url_kind = "login" THEN "tab_login"
                                ELSE IF check_auth_status(first) = "False" THEN "modal_login"
                                ELSE "final"
    /\ UNCHANGED <<call, attempted, result, appVars>>

\* one iteration of `for attempt in range(max_retries)` of enhanced_modal_login
ModalLoginAttempt ==
    /\ call.fn = "scrape_linkedin_profile_enhanced"
    /\ fpc = "modal_login"
    /\ Len(locals.modal) < ModalMaxRetries
    /\ \E o \in ModalAttempts :
         /\ locals' = [locals EXCEPT !.modal = Append(@, o), !.modal_login = LoginReturns(o)]
         /\ fpc' = IF LoginReturns(o) THEN "final" ELSE fpc
    /\ UNCHANGED <<call, attempted, result, ret, contexts, appVars>>

\* enhanced_modal_login: `return False` after the loop; the tab login is next
ModalLoginFailed ==
    /\ call.fn = "scrape_linkedin_profile_enhanced"
    /\ fpc = "modal_login"
    /\ Len(locals.modal) = ModalMaxRetries
    /\ fpc' = "tab_login"
    /\ UNCHANGED <<call, attempted, result, ret, locals, contexts, appVars>>

\* one iteration of `for attempt in range(max_retries)` of enhanced_tab_login,
\* its finally clause included
TabLoginAttempt ==
    /\ call.fn = "scrape_linkedin_profile_enhanced"
    /\ fpc = "tab_login"
    /\ Len(locals.tab) < TabMaxRetries
    /\ \E o \in TabAttempts :
         /\ locals' = [locals EXCEPT !.tab = Append(@, o), !.tab_login = LoginReturns(o)]
         /\ contexts' = IF TabOpened(o)
                        THEN Append(contexts, Context("tab", TabClosed(TabOpened(o))))
                        ELSE contexts
         /\ fpc' = IF LoginReturns(o) THEN "final" ELSE fpc
    /\ UNCHANGED <<call, attempted, result, ret, appVars>>

\* enhanced_tab_login: `return False` after the loop
TabLoginFailed ==
    /\ call.fn = "scrape_linkedin_profile_enhanced"
    /\ fpc = "tab_login"
    /\ Len(locals.tab) = TabMaxRetries
    /\ fpc' = "final"
    /\ UNCHANGED <<call, attempted, result, ret, locals, contexts, appVars>>

\* the rest of the try block once the logins have returned, the except and
\* the finally clause
ScrapeProfileFinish ==
    /\ call.fn = "scrape_linkedin_profile_enhanced"
    /\ fpc = "final"
    /\ \E after_login \in PageViews, main_found \in BOOLEAN, html \in HtmlTexts :
         LET out == ScrapeProfilePage(call.url, locals.first, locals.tab_login,
                                      locals.modal_login, after_login, main_found, html) IN
         /\ attempted' = Append(attempted,
                                Attempt("scrape_linkedin_profile_enhanced", out.page, out.ret))
         /\ ret' = out.ret
    /\ contexts' = CloseBrowser(contexts)
    /\ fpc' = "returned"
    /\ UNCHANGED <<call, result, locals, appVars>>

---------------------------------------------------------------------------
(* linkedin_profile_scraper.py, linkedin_user_scraper.py: clean_text *)

\* a text is a sequence of pieces: a letter, a blank, a newline, and three
\* phrases the UI patterns of clean_text look for
Tokens == {"a", " ", "\n", "ConnectMessageMore", "Show more", "Show less"}

\* the longest text, in pieces
MaxTextLen == 5

Texts == UNION {[1..n -> Tokens] : n \in 0..MaxTextLen}

\* \s
IsSpace(t) == t \in {" ", "\n"}

\* text.lstrip()
RECURSIVE LStrip(_)
LStrip(text) ==
    IF text # << >> /\ IsSpace(Head(text)) THEN LStrip(Tail(text)) ELSE text

\* text.rstrip()
RECURSIVE RStrip(_)
RStrip(text) ==
    IF text # << >> /\ IsSpace(text[Len(text)])
    THEN RStrip(SubSeq(text, 1, Len(text) - 1))
    ELSE text

\* text.strip()
StripText(text) == RStrip(LStrip(text))

\* re.sub(r'\s+', ' ', text): every run of whitespace becomes one blank
RECURSIVE CollapseWhitespace(_)
CollapseWhitespace(text) ==
    IF text = << >> THEN << >>
    ELSE IF IsSpace(Head(text))
    THEN <<" ">> \o CollapseWhitespace(LStrip(text))
    ELSE <<Head(text)>> \o CollapseWhitespace(Tail(text))

\* re.sub(r'Show more.*?Show less', '', text): scanning from the left, each
\* "Show more" is removed together with everything up to the nearest
\* "Show less" after it
RECURSIVE RemoveShowMore(_)
RemoveShowMore(text) ==
    IF text = << >> THEN << >>
    ELSE LET closers == {j \in 2..Len(text) : text[j] = "Show less"} IN
         IF Head(text) = "Show more" /\ closers # {}
         THEN LET j == CHOOSE c \in closers : \A d \in closers : c <= d
              IN RemoveShowMore(SubSeq(text, j + 1, Len(text)))
         ELSE <<Head(text)>> \o RemoveShowMore(Tail(text))

\* re.sub(r'Connect\s*Message\s*More', '', text)
RemoveConnect(text) == SelectSeq(text, LAMBDA t : t # "ConnectMessageMore")

\* clean_text(text): strip and collapse the whitespace, remove the UI
\* patterns in the order of ui_patterns, strip again
clean_text(text) ==
    IF text = << >> THEN << >>
    ELSE StripText(RemoveConnect(RemoveShowMore(CollapseWhitespace(StripText(text)))))

\* clean_text applied to the text given, and then to what it returned
CleanText ==
    /\ call.fn = "clean_text"
    /\ \/ fpc = "entry" /\ ret' = [text |-> clean_text(call.text)]
       \/ fpc = "returned" /\ ret' = [text |-> clean_text(ret.text)]
    /\ fpc' = "returned"
    /\ UNCHANGED <<call, attempted, result, locals, contexts, appVars>>

---------------------------------------------------------------------------
(* linkedin_profile_scraper.py: parse_experience_item, process_extracted_data *)

\* text.split('\n')
RECURSIVE SplitLines(_)
SplitLines(text) ==
    LET breaks == {i \in 1..Len(text) : text[i] = "\n"} IN
    IF breaks = {} THEN <<text>>
    ELSE LET i == CHOOSE b \in breaks : \A c \in breaks : b <= c
         IN <<SubSeq(text, 1, i - 1)>> \o SplitLines(SubSeq(text, i + 1, Len(text)))

\* [line.strip() for line in text.split('\n') if line.strip()]
StrippedLines(text) ==
    LET lines == SplitLines(text)
        strip_line(i) == StripText(lines[i])
        kept == SelectSeq([i \in 1..Len(lines) |-> strip_line(i)], LAMBDA l : l # << >>)
    IN kept

\* ' '.join(lines)
RECURSIVE JoinLines(_)
JoinLines(lines) ==
    IF lines = << >> THEN << >>
    ELSE IF Len(lines) = 1 THEN lines[1]
    ELSE lines[1] \o <<" ">> \o JoinLines(Tail(lines))

\* parse_experience_item(text); no piece of a text here is a date, so no
\* line is a duration
parse_experience_item(text) ==
    IF text = << >> THEN EmptyDict
    ELSE LET lines == StrippedLines(text)
             title == IF Len(lines) > 0 THEN [title |-> lines[1]] ELSE EmptyDict
             organization == IF Len(lines) > 1 THEN [organization |-> lines[2]] ELSE EmptyDict
             description == IF Len(lines) > 2
                            THEN [description |-> JoinLines(SubSeq(lines, 3, Len(lines)))]
                            ELSE EmptyDict
         IN title @@ organization @@ description

\* the experience strings of the extracted data: words, blanks and line breaks
ExperienceTexts == UNION {[1..n -> {"a", " ", "\n"}] : n \in 0..MaxTextLen}

\* process_extracted_data called with one experience string
ExperienceCalls == {[fn |-> "process_extracted_data", experience |-> t] : t \in ExperienceTexts}

\* process_extracted_data: `parsed_exp = parse_experience_item(clean_text(exp))`,
\* appended `if parsed_exp`
ProcessExperience ==
    /\ call.fn = "process_extracted_data"
    /\ fpc = "entry"
    /\ LET parsed_exp == parse_experience_item(clean_text(call.experience)) IN
       ret' = [experience |-> IF parsed_exp # EmptyDict THEN <<parsed_exp>> ELSE << >>]
    /\ fpc' = "returned"
    /\ UNCHANGED <<call, attempted, result, locals, contexts, appVars>>

---------------------------------------------------------------------------
(* cv_reader.py *)

\* the file names read_cv is given
CvPaths == {"cv.pdf", "cv.PDF", "cv.tex", "cv.latex", "cv.docx", "cv.txt", "cv"}

\* os.path.splitext(file_path)[-1].lower()
LowerExt(file_path) ==
    CASE file_path \in {"cv.pdf", "cv.PDF"} -> ".pdf"
      [] file_path = "cv.tex" -> ".tex"
      [] file_path = "cv.latex" -> ".latex"
      [] file_path = "cv.docx" -> ".docx"
      [] file_path = "cv.txt" -> ".txt"
      [] OTHER -> ""

\* the reader read_cv dispatches the extension to; NoneStr where it raises
\* ValueError("Unsupported file type")
CvReader(ext) ==
    CASE ext = ".pdf" -> "read_pdf"
      [] ext \in {".tex", ".latex"} -> "read_latex"
      [] ext = ".docx" -> "read_docx"
      [] OTHER -> NoneStr

\* what read_pdf, read_latex and read_docx can do: raise, or return the text
ReaderOutcomes ==
    {[raised |-> TRUE]} \cup {[raised |-> FALSE, text |-> t] : t \in {EmptyStr, Str(600, 0)}}

\* read_cv(file_path): the text, or the exception it lets through
ReadCv ==
    /\ fpc = "entry"
    /\ call.fn = "read_cv"
    /\ LET ext == LowerExt(call.file_path) IN
       IF CvReader(ext) # NoneStr
       THEN \E r \in ReaderOutcomes :
              /\ attempted' = <<Attempt(CvReader(ext), r, IF r.raised THEN Raised ELSE r.text)>>
              /\ ret' = IF r.raised THEN Raised ELSE r.text
       ELSE /\ attempted' = << >>
            /\ ret' = Raised
    /\ fpc' = "returned"
    /\ UNCHANGED <<call, result, locals, contexts, appVars>>

---------------------------------------------------------------------------
(* cv_embedder.py: chunk_cv *)

\* longest section content and largest chunk_size tried
MaxCvLen == 4
MaxChunkSize == 4

\* the characters of a section's content: a letter and the line break
CvChars == {"a", "\n"}
CvTexts == UNION {[1..n -> CvChars] : n \in 0..MaxCvLen}

\* cv_dict.items(): no section, one section, two sections
CvDicts ==
    {<< >>}
    \cup {<<[section |-> "s", content |-> t]>> : t \in CvTexts}
    \cup {<<[section |-> "s", content |-> t], [section |-> "e", content |-> u]>> :
            t \in CvTexts, u \in CvTexts}

\* chunk_cv called with each dict and each chunk_size >= 1
ChunkCalls ==
    {[fn |-> "chunk_cv", cv_dict |-> d, chunk_size |-> n] :
        d \in CvDicts, n \in 1..MaxChunkSize}

\* the loop is followed for at most this many appended chunks
MaxChunks == 2 * (MaxCvLen + 1)

\* section.upper()
Upper(section) == CASE section = "s" -> "S" [] section = "e" -> "E"

\* text.rfind(ch): the last index (from 0) of ch in text, -1 when absent
RFind(text, ch) ==
    LET at == {i \in 1..Len(text) : text[i] = ch} IN
    IF at = {} THEN -1 ELSE (CHOOSE i \in at : \A j \in at : j <= i) - 1

\* text[from:to] for 0 <= from, 0 <= to
Slice(text, from, to) ==
    SubSeq(text, from + 1, IF to < Len(text) THEN to ELSE Len(text))

\* f"{section.upper()}:\n{body}"
Chunk(section, body) == <<Upper(section), ":", "\n">> \o body

\* chunks = [] and the first item of cv_dict.items()
ChunkCvEnter ==
    /\ call.fn = "chunk_cv"
    /\ fpc = "entry"
    /\ IF call.cv_dict = << >>
       THEN /\ ret' = [chunks |-> << >>]
            /\ fpc' = "returned"
            /\ locals' = locals
       ELSE /\ locals' = [chunks |-> << >>, item |-> 1, text |-> call.cv_dict[1].content]
            /\ fpc' = "while"
            /\ ret' = ret
    /\ UNCHANGED <<call, attempted, result, contexts, appVars>>

\* one iteration of `while len(text) > chunk_size`
ChunkCvSplit ==
    /\ call.fn = "chunk_cv"
    /\ fpc = "while"
    /\ Len(locals.text) > call.chunk_size
    /\ Len(locals.chunks) < MaxChunks
    /\ LET found == RFind(Slice(locals.text, 0, call.chunk_size), "\n")
           split_idx == IF found = -1 THEN call.chunk_size ELSE found
           section == call.cv_dict[locals.item].section
       IN locals' = [locals EXCEPT
                        !.chunks = Append(@, Chunk(section, Slice(locals.text, 0, split_idx))),
                        !.text = Slice(locals.text, split_idx, Len(locals.text))]
    /\ UNCHANGED <<call, fpc, attempted, result, ret, contexts, appVars>>

\* the loop of one section is left: the rest of the text, stripped, is
\* the section's last chunk; then the next item, or `return chunks`
ChunkCvRest ==
    /\ call.fn = "chunk_cv"
    /\ fpc = "while"
    /\ Len(locals.text) <= call.chunk_size
    /\ LET section == call.cv_dict[locals.item].section
           chunks == IF StripText(locals.text) # << >>
                     THEN Append(locals.chunks, Chunk(section, StripText(locals.text)))
                     ELSE locals.chunks
       IN IF locals.item < Len(call.cv_dict)
          THEN /\ locals' = [chunks |-> chunks, item |-> locals.item + 1,
                             text |-> call.cv_dict[locals.item + 1].content]
               /\ UNCHANGED <<fpc, ret>>
          ELSE /\ locals' = [locals EXCEPT !.chunks = chunks]
               /\ ret' = [chunks |-> chunks]
               /\ fpc' = "returned"
    /\ UNCHANGED <<call, attempted, result, contexts, appVars>>

---------------------------------------------------------------------------
(* Specifications *)

\* the session after the first run of main(), no fetch in progress
Init ==
    /\ session_state = init_session_state(EmptyDict)
    /\ pc = "idle"
    /\ inputs = None
    /\ cleared_any = FALSE
    /\ call = None
    /\ fpc = "idle"
    /\ attempted = << >>
    /\ result = None
    /\ ret = None
    /\ locals = EmptyDict
    /\ contexts = << >>

Next ==
    \/ ClickAnalyze
    \/ ProcessCv
    \/ ProcessJobCall
    \/ FetchJobEntry
    \/ Method1(AppCrawls)
    \/ Method2(AppCrawls, AppApis)
    \/ Method3
    \/ ManualFallback
    \/ ScrapeReturn
    \/ ProcessJobReturn
    \/ ProcessCompanyCall
    \/ FetchCompany(AppCrawls)
    \/ ProcessCompanyReturn
    \/ ProcessRecruiterCall
    \/ FetchRecruiter(AppProfiles)
    \/ ProcessRecruiterReturn
    \/ Matching
    \/ GenerateCoverLetter
    \/ GenerateRecruiterMessage
    \/ ParseJob(AppManualTexts)
    \/ ParseCompany(AppManualTexts)
    \/ ParseRecruiter(AppManualTexts)
    \/ ResetAllData
    \/ Rerun

Spec == Init /\ [][Next]_vars

\* the fetch functions called directly, with any arguments
FetchFns == ScrapeFns \cup {"fetch_recruiter_info", "fetch_recruiter_profile"}

\* what the crawler, the jobs-guest API and the profile page can answer
PageCrawls == CrawlResponses(PageTexts)
PageApis == ApiResponses(PageTexts)
PageProfiles == ProfileResponses(PageTexts)

\* scrape_linkedin_*_enhanced take no manual text
Calls ==
    {c \in [fn : FetchFns, url : Urls, manual : ManualTexts \cup {None}] :
        c.fn \in {"scrape_linkedin_company_enhanced", "scrape_linkedin_recruiter_enhanced"}
            => c.manual = None}

\* read_cv called with each file name
CvCalls == {[fn |-> "read_cv", file_path |-> p] : p \in CvPaths}

\* scrape_linkedin_profile_enhanced called with and without a manual text
ProfileScrapeCalls ==
    {[fn |-> "scrape_linkedin_profile_enhanced", url |-> ProfileUrl, manual |-> m] :
        m \in {None, EmptyStr, Str(500, 0)}}

\* clean_text called with each text
CleanCalls == {[fn |-> "clean_text", text |-> t] : t \in Texts}

\* every call the fetch specification starts from
AllCalls == Calls \cup CvCalls \cup ProfileScrapeCalls \cup CleanCalls \cup ChunkCalls
            \cup ExperienceCalls \cup ParserCalls

InitFetch ==
    /\ call \in AllCalls
    /\ fpc = "entry"
    /\ attempted = << >>
    /\ result = None
    /\ ret = None
    /\ locals = EmptyDict
    /\ contexts = << >>
    /\ session_state = init_session_state(EmptyDict)
    /\ pc = "idle"
    /\ inputs = None
    /\ cleared_any = FALSE

NextFetch ==
    \/ FetchJobEntry
    \/ ScrapeEnhancedEntry
    \/ Method1(PageCrawls)
    \/ Method2(PageCrawls, PageApis)
    \/ Method3
    \/ ManualFallback
    \/ ScrapeReturn
    \/ FetchCompany(PageCrawls)
    \/ FetchRecruiter(PageProfiles)
    \/ ReadCv
    \/ ScrapeProfileEnhanced
    \/ ModalLoginAttempt
    \/ ModalLoginFailed
    \/ TabLoginAttempt
    \/ TabLoginFailed
    \/ ScrapeProfileFinish
    \/ CleanText
    \/ ChunkCvEnter
    \/ ChunkCvSplit
    \/ ChunkCvRest
    \/ ProcessExperience
    \/ ParseContent

SpecFetch == InitFetch /\ [][NextFetch]_vars


---------------------------------------------------------------------------
(* Properties of scrape_with_fallback and of the fetch functions *)

\* the strategies of scrape_with_fallback, by rank
StrategyRank == <<"_scrape_unauthenticated", "_scrape_public_endpoint",
                  "_scrape_alternative_sources">>

IsScrapeCall == call # None /\ call.fn \in ScrapeFns

\* scrape_with_fallback has returned
ScrapeDone == fpc \in {"scraped", "returned"}

\* the strategies attempted so far, in the order of their invocation
Strategies == [i \in 1..Len(attempted) |-> attempted[i].strategy]

\* the dict a strategy returned carries content of at least the minimum length
ReturnsSufficient(res) ==
    /\ ~IsRaised(res)
    /\ Has(res, "content")
    /\ len(res.content) >= MinContentLen

\* the controller returned what the k-th attempted strategy returned
ControllerAccepted(k) ==
    /\ ScrapeDone
    /\ k = Len(attempted)
    /\ result = attempted[k].ret

\* C1: the strategies of scrape_with_fallback are invoked strictly in rank
\* order, and when the k-th returns content of at least the minimum length the
\* controller's result is that strategy's result (so it carries its method id),
\* the k-1 strategies before it were attempted in order, and none after it is.
C1_StrategyOrdering ==
    IsScrapeCall =>
        /\ Len(attempted) <= Len(StrategyRank)
        /\ \A i \in 1..Len(attempted) : attempted[i].strategy = StrategyRank[i]
        /\ \A k \in 1..Len(attempted) :
             ReturnsSufficient(attempted[k].ret) =>
                 /\ ControllerAccepted(k)
                 /\ result.method = attempted[k].ret.method

\* the second strategy returned sufficient content after the first failed, and
\* the controller has returned
C1_Witness ==
    /\ IsScrapeCall
    /\ ScrapeDone
    /\ Len(attempted) = 2
    /\ ~Get(attempted[1].ret, "success", FALSE)
    /\ ReturnsSufficient(attempted[2].ret)
    /\ result.method = "api_job_api"

\* the backend answered with a page or a body (crawl success, or HTTP 200)
RawOk(a) ==
    \/ Has(a.raw, "success") /\ a.raw.success
    \/ Has(a.raw, "status_code") /\ a.raw.status_code = 200

\* the text the backend answered with
RawText(a) ==
    IF Has(a.raw, "markdown") THEN a.raw.markdown
    ELSE IF Has(a.raw, "text") THEN a.raw.text
    ELSE EmptyStr

\* the k-th attempt ended the resolution with a success
AttemptAccepted(k) ==
    IF attempted[k].strategy = "scrape_linkedin_company"
    THEN fpc = "returned" /\ ~HasError(ret)
    ELSE ControllerAccepted(k) /\ Get(result, "success", FALSE)

\* C2: for every extraction strategy (the three of scrape_with_fallback and
\* scrape_linkedin_company), a text of exactly MinContentLen characters is
\* accepted as a success and a text of MinContentLen - 1 characters is rejected.
C2_ThresholdBoundary ==
    \A k \in 1..Len(attempted) :
        LET a == attempted[k] IN
        (a.strategy # "scrape_linkedin_recruiter_profile" /\ RawOk(a)) =>
            /\ RawText(a) = Str(MinContentLen, 0) => AttemptAccepted(k)
            /\ RawText(a) = Str(MinContentLen - 1, 0) => ~AttemptAccepted(k)

\* C3: a strategy result of scrape_with_fallback whose success flag is true but
\* whose content is empty or shorter than MinContentLen is not accepted by the
\* controller.
C3_SufficiencyAfterEveryStrategy ==
    IsScrapeCall =>
        \A k \in 1..Len(attempted) :
            LET res == attempted[k].ret IN
            (/\ ~IsRaised(res)
             /\ Get(res, "success", FALSE)
             /\ len(strip(Get(res, "content", EmptyStr))) < MinContentLen)
                => ~ControllerAccepted(k)

\* a strategy failed: by exception, by failure flag, or by insufficient content
AttemptFailed(a) ==
    \/ IsRaised(a.ret)
    \/ ~Get(a.ret, "success", FALSE)
    \/ len(strip(Get(a.ret, "content", EmptyStr))) < MinContentLen

\* C4: when scrape_with_fallback has returned and every strategy it attempted
\* failed (exception, failure flag or insufficient content), all three
\* strategies were attempted, once each, and the result is the
\* manual-input-required result.
C4_Exhaustion ==
    (/\ IsScrapeCall
     /\ ScrapeDone
     /\ attempted # << >>
     /\ \A k \in 1..Len(attempted) : AttemptFailed(attempted[k]))
        => /\ Strategies = StrategyRank
           /\ result = _create_manual_fallback(call.url, ScrapeType(call.fn))

ManualFetchFns == {"fetch_linkedin_job_enhanced", "fetch_recruiter_info",
                   "fetch_recruiter_profile"}

\* the fetch function returned a result without an error and without having
\* invoked a scraping strategy
ManualAccepted == ~HasError(ret) /\ attempted = << >>

EndpointReturned600 ==
    /\ call # None
    /\ call.fn = "fetch_linkedin_job_enhanced"
    /\ \E k \in 1..Len(attempted) :
         /\ attempted[k].strategy = "_scrape_public_endpoint"
         /\ Has(attempted[k].raw, "status_code")
         /\ attempted[k].raw.status_code = 200
         /\ attempted[k].raw.text = Str(600, 0)

\* C7 as stated: when the direct endpoint returns a 600-character body for a
\* job target, the controller reports success with method id "direct_endpoint"
\* and the render strategy is not invoked.
C7_EndpointSuccessDirect ==
    EndpointReturned600 =>
        /\ ScrapeDone
        /\ Get(result, "success", FALSE)
        /\ Get(result, "method", "") = "direct_endpoint"
        /\ \A i \in 1..Len(attempted) : attempted[i].strategy # "_scrape_unauthenticated"

\* C7: when the direct endpoint returns a 600-character body for a job target,
\* the controller reports success with method id "api_job_api"; the render
\* strategy was invoked once, before the endpoint, and no strategy after it.
C7_EndpointSuccess ==
    EndpointReturned600 =>
        /\ ScrapeDone
        /\ Get(result, "success", FALSE)
        /\ Get(result, "method", "") = "api_job_api"
        /\ Strategies = <<"_scrape_unauthenticated", "_scrape_public_endpoint">>
        /\ fpc = "returned" => (~HasError(ret) /\ Get(ret, "method", "") = "api_job_api")

\* fetch_linkedin_job_enhanced returned the 600-character body of the endpoint
C7_Witness ==
    /\ EndpointReturned600
    /\ fpc = "returned"
    /\ ret.markdown = Str(600, 0)
    /\ ret.method = "api_job_api"


---------------------------------------------------------------------------
(* Properties of the session *)

\* the strategy's backend answered with nothing, or with less than the minimum
ReturnedShort(a) == len(strip(RawText(a))) < MinContentLen

\* the result is the manual-input-required result with its four steps
IsManualRequired(res) ==
    /\ Get(res, "error", "") = "MANUAL_INPUT_REQUIRED"
    /\ Has(res, "instructions")
    /\ Len(res.instructions.steps) = 4

\* the job dict is built from the operator's text: its markdown is a text that
\* holds it, and the dict says that it comes from manual input
IsManualJobDocument(raw, text) ==
    /\ ~HasError(raw)
    /\ Get(raw, "markdown", None) # None
    /\ len(raw.markdown) >= len(strip(text))
    /\ \/ Get(raw, "method", "") = "manual_input"
       \/ Get(Get(raw, "metadata", None), "source", "") = "Manual input"

\* C6: while process_job resolves the job, (a) when every strategy attempted
\* got empty or short content, scrape_with_fallback returns the
\* manual-input-required result with a list of 4 steps; (b) once the operator
\* has submitted a non-empty text and the job is resolved again, the dict
\* fetch_linkedin_job_enhanced returns is built from that text, says that it
\* comes from manual input, and its markdown (what parse_job_description is
\* given) is non-empty.
C6_ExhaustionThenManualRecovery ==
    pc = "job_wait" =>
        /\ (/\ ScrapeDone
            /\ attempted # << >>
            /\ \A k \in 1..Len(attempted) : ReturnedShort(attempted[k]))
                => IsManualRequired(result)
        /\ (fpc = "returned" /\ NonBlank(call.manual))
                => IsManualJobDocument(ret, call.manual)

\* the job is resolved again after the operator submitted 500 characters, and
\* the dict fetch_linkedin_job_enhanced returns has no markdown
C6_Witness ==
    /\ pc = "job_wait"
    /\ fpc = "returned"
    /\ session_state.manual_job_text = Str(500, 0)
    /\ call.manual = Str(500, 0)
    /\ ret.markdown = None

\* session_state.get(key)
Slot(ss, key) == Get(ss, key, None)

\* C8: every step that changes an upstream slot (cv_struct, job_struct,
\* company_info, recruiter_profile) leaves every generated artifact
\* (match_results, cover_letter, recruiter_message) empty.
C8_StateClearing ==
    [][\A S \in UpstreamSlots :
          Slot(session_state', S) # Slot(session_state, S)
              => \A G \in ArtifactSlots : Slot(session_state', G) = None]_vars

\* a run whose clearing loop emptied a generated artifact has written cv_struct
C8_Witness ==
    /\ pc = "job"
    /\ cleared_any
    /\ TruthyDict(session_state.cv_struct)
    /\ \A G \in ArtifactSlots : session_state[G] = None

\* the pairs of a manual-required flag and the slot it belongs to
ManualFlagOf == [job_struct |-> "job_manual_required",
                 company_info |-> "company_manual_required",
                 recruiter_profile |-> "recruiter_manual_required"]

\* the slot holds a successful value
HoldsSuccess(v) == TruthyDict(v) /\ ~HasError(v)

\* C9: for the job, company and recruiter slots, the manual-required flag is
\* never true while the slot holds a successful value.
C9_ManualFlagExclusive ==
    \A S \in DOMAIN ManualFlagOf :
        ~(/\ Get(session_state, ManualFlagOf[S], FALSE)
          /\ HoldsSuccess(Slot(session_state, S)))

\* C10: the run that follows "Reset All Data" leaves every slot at the value
\* init_session_state gives it.
C10_Reset ==
    [][pc = "reset_rerun" => (pc' = "idle" /\ session_state' = default_states)]_vars

\* "Reset All Data" has deleted every key and the next run is about to start
C10_Witness ==
    /\ pc = "reset_rerun"
    /\ DOMAIN session_state = {}

---------------------------------------------------------------------------
(* Properties of one Analyze run *)

\* the step ends process_job after fetch_linkedin_job_enhanced returned an
\* error, with a job slot that is None or empty
JobStepFailed ==
    /\ pc = "job_wait"
    /\ pc' # "job_wait"
    /\ HasError(ret)
    /\ ~TruthyDict(session_state'.job_struct)

\* C11: within one Analyze run, when job scraping failed (the job step ends
\* with an empty job slot) and a company URL was given, the run goes on to the
\* company step.
C11_IndependentTargets ==
    [][(JobStepFailed /\ inputs.company_url # "") => pc' = "company"]_vars

\* the position of each step in main()'s Analyze block
StepRank == [cv |-> 1, job |-> 2, job_wait |-> 3, company |-> 4, company_wait |-> 5,
             recruiter |-> 6, recruiter_wait |-> 7, match |-> 8]

\* the steps that come after process_job has returned
AfterJobSteps == {"company", "company_wait", "recruiter", "recruiter_wait", "match"}

\* the slot each step of the run writes
StepSlot == [cv |-> "cv_struct", job_wait |-> "job_struct", company_wait |-> "company_info",
             recruiter_wait |-> "recruiter_profile", match |-> "match_results"]

\* the recruiter step has used the job slot: the parsed profile it stored
\* carries the insights process_recruiter adds `if st.session_state.job_struct`
RecruiterSawJob(ss) ==
    /\ Has(ss.recruiter_profile, "parsed_data")
    /\ Has(ss.recruiter_profile.parsed_data, "personalization_insights")

\* C12: within one Analyze run the steps are taken in the order cv, job,
\* company, recruiter, match: (a) a run only moves forward in that order and a
\* step starts only when no fetch of an earlier step is in progress; (b) a
\* step writes no slot other than its own; (c) from the company step on, the
\* job slot holds the non-empty value the job step of this run stored, so a
\* recruiter step that stores a parsed profile without error has read it.
C12_TargetOrdering ==
    /\ [](pc \in {"cv", "job", "company", "recruiter", "match"} => call = None)
    /\ [](pc \in AfterJobSteps =>
            /\ session_state.cv_struct \notin {None, EmptyDict}
            /\ session_state.job_struct \notin {None, EmptyDict})
    /\ [][/\ (pc \in DOMAIN StepRank /\ pc' \in DOMAIN StepRank)
                => StepRank[pc'] >= StepRank[pc]
          /\ pc \in DOMAIN StepRank =>
                \A S \in UpstreamSlots \cup {"match_results"} :
                    Slot(session_state', S) # Slot(session_state, S)
                        => (pc \in DOMAIN StepSlot /\ StepSlot[pc] = S)
          /\ (/\ pc = "recruiter_wait"
              /\ pc' = "match"
              /\ Has(session_state'.recruiter_profile, "parsed_data")
              /\ Has(session_state'.recruiter_profile, "summary"))
                => RecruiterSawJob(session_state')]_vars

\* the run reached the match step after the recruiter step stored a profile
\* enhanced with the job of this run
C12_Witness ==
    /\ pc = "match"
    /\ HoldsSuccess(session_state.job_struct)
    /\ RecruiterSawJob(session_state)

---------------------------------------------------------------------------
(* Properties of the results the fetch functions return *)

\* fetch_linkedin_job_enhanced returned the result of an automated strategy:
\* a dict with a method and no error
AutomatedJobSuccess ==
    /\ fpc = "returned"
    /\ call.fn = "fetch_linkedin_job_enhanced"
    /\ ~NonBlank(call.manual)
    /\ Get(ret, "method", "") # ""
    /\ ~HasError(ret)

\* C13: whenever fetch_linkedin_job_enhanced returns the result of an
\* automated strategy (a method, no error), its markdown is a non-empty text.
C13_NonEmptyCanonicalText ==
    AutomatedJobSuccess => TruthyStr(Get(ret, "markdown", None))

\* the URL is one of the declared kind: on linkedin.com with the path of the
\* kind, as is_valid_linkedin_company_url and is_valid_linkedin_profile_url
\* require for theirs
ValidForKind(fn, url) ==
    /\ OnLinkedIn(url)
    /\ CASE fn = "fetch_linkedin_job_enhanced" -> HasJobsView(url)
         [] fn = "fetch_recruiter_info" -> HasCompany(url)
         [] OTHER -> HasIn(url)

\* the call is given a file with an extension no reader exists for, or (with
\* no manual text) a URL that is not one of its kind
MalformedInput ==
    \/ /\ call.fn = "read_cv"
       /\ LowerExt(call.file_path) \notin {".pdf", ".tex", ".latex", ".docx"}
    \/ /\ call.fn \in ManualFetchFns
       /\ ~NonBlank(call.manual)
       /\ ~ValidForKind(call.fn, call.url)

\* C14: a call with a malformed input attempts no reader and no scraping
\* strategy, and what it returns is a failure (an exception or an error dict).
C14_MalformedInput ==
    MalformedInput =>
        /\ attempted = << >>
        /\ fpc = "returned" => (IsRaised(ret) \/ HasError(ret))

\* the two scrapers that render the profile page in a signed-in browser
AuthRenderStrategies == {"scrape_linkedin_recruiter_profile",
                         "scrape_linkedin_profile_enhanced"}

\* the marker check on the page found the session signed in: a signed-in
\* marker and no sign-in-wall marker
FoundSignedIn(raw) ==
    /\ Get(raw, "signed_in_marker", FALSE)
    /\ ~Get(raw, "wall_marker", FALSE)

\* the dict carries content of the page
CarriesPage(res) ==
    \/ TruthyStr(Get(res, "markdown", None))
    \/ Has(res, "extraction_method")

\* C15: an authenticated render whose marker check did not find the session
\* signed in (a sign-in-wall marker on the page, or no signed-in marker)
\* returns an error and no content of the page; so content is returned as a
\* success only when the check found the session signed in.
C15_AuthenticationDetection ==
    \A k \in 1..Len(attempted) :
        LET a == attempted[k] IN
        (a.strategy \in AuthRenderStrategies /\ ~FoundSignedIn(a.raw))
            => (HasError(a.ret) /\ ~CarriesPage(a.ret))

\* the strategies of scrape_with_fallback, none of which signs in
UnauthenticatedStrategies == {StrategyRank[i] : i \in 1..Len(StrategyRank)}

\* fetch_recruiter_profile has returned after its authenticated scrape failed:
\* no cookie bundle was found (the scrape was given no page), or the page it
\* got was not signed in
AuthenticatedFailed ==
    /\ fpc = "returned"
    /\ call.fn = "fetch_recruiter_profile"
    /\ attempted # << >>
    /\ attempted[1].strategy = "scrape_linkedin_recruiter_profile"
    /\ HasError(attempted[1].ret)
    /\ \/ attempted[1].raw = None
       \/ ~FoundSignedIn(attempted[1].raw)

\* C16: when fetch_recruiter_profile returns after its authenticated scrape
\* failed (no cookie bundle, or a page that is not signed in), a strategy that
\* needs no sign-in was attempted after it, and the manual-input prompt is
\* returned only if every attempt failed.
C16_AuthFailureNotTerminal ==
    AuthenticatedFailed =>
        /\ \E k \in 2..Len(attempted) : attempted[k].strategy \in UnauthenticatedStrategies
        /\ Get(ret, "error", "") = "MANUAL_INPUT_REQUIRED"
              => \A k \in 1..Len(attempted) : AttemptFailed(attempted[k])

\* a fetch function returned a failure to its caller
TerminalFailure ==
    /\ fpc = "returned"
    /\ call.fn \in ManualFetchFns
    /\ HasError(ret)

\* the result names a reason, and when a strategy was attempted the reason is
\* the error of the last attempt
CarriesReason(res) ==
    /\ Get(res, "original_error", "") # ""
    /\ attempted # << >> =>
          res.original_error = Get(attempted[Len(attempted)].ret, "error", "")

\* C17: every failure fetch_linkedin_job_enhanced, fetch_recruiter_info or
\* fetch_recruiter_profile returns carries the reason of the last failed
\* attempt and the list of four numbered steps.
C17_FailureCarriesReasonAndSteps ==
    TerminalFailure => (CarriesReason(ret) /\ IsManualRequired(ret))

\* the strategy's backend raised, was blocked (crawl failure or a status other
\* than 200), or answered with an empty text
TransientFailure(a) ==
    \/ Get(a.raw, "raised", FALSE)
    \/ ~RawOk(a)
    \/ len(strip(RawText(a))) = 0

\* C18: in scrape_with_fallback, (a) a strategy whose backend raised, was
\* blocked or answered with an empty text is not the one the controller
\* returns; (b) when the controller has returned, its result is never an
\* exception and is exactly one of a success result and the
\* manual-input-required result.
C18_TransientFailuresAbsorbed ==
    (IsScrapeCall /\ ScrapeDone /\ attempted # << >>) =>
        /\ \A k \in 1..Len(attempted) :
             TransientFailure(attempted[k]) => ~ControllerAccepted(k)
        /\ ~IsRaised(result)
        /\ Get(result, "success", FALSE)
              # (result = _create_manual_fallback(call.url, ScrapeType(call.fn)))

---------------------------------------------------------------------------
(* Properties of the structuring step *)

\* the step ends process_job after a fetch that returned no error, and the job
\* slot does not hold the dict parse_job_description builds from the posting
StructuringFailed ==
    /\ pc = "job_wait"
    /\ pc' # "job_wait"
    /\ ~HasError(ret)
    /\ session_state'.job_struct # [title |-> "job"]

\* the step starts a call of fetch_linkedin_job_enhanced
JobFetchStarts ==
    /\ call' # call
    /\ call' # None
    /\ call'.fn = "fetch_linkedin_job_enhanced"

\* C19: when the structuring of the fetched job fails, the job slot is left
\* None or empty, or holds a dict with an error, and the step invokes no fetch;
\* fetch_linkedin_job_enhanced is only ever invoked by the job step of a run,
\* and a run enters its job step only from its CV step, so the failure brings
\* no new invocation of a strategy.
C19_StructuringFailure ==
    [][/\ StructuringFailed =>
            /\ \/ session_state'.job_struct \in {None, EmptyDict}
               \/ HasError(session_state'.job_struct)
            /\ call' = None
            /\ attempted' = << >>
       /\ JobFetchStarts => pc = "job"
       /\ (pc' = "job" /\ pc # "job") => pc = "cv"]_vars

\* the run ended at the job step: a strategy had fetched the posting (its
\* method is recorded), the structuring raised, the slot is None and the
\* manual-required flag is set
C19_Witness ==
    /\ pc = "idle"
    /\ call = None
    /\ session_state.cv_struct \notin {None, EmptyDict}
    /\ session_state.job_struct = None
    /\ session_state.scraping_method = "api_job_api"
    /\ session_state.job_manual_required

---------------------------------------------------------------------------
(* Properties of clean_text *)

\* C20: clean_text applied to its own output returns that output unchanged,
\* clean_text(clean_text(x)) = clean_text(x) for every text x.
C20_NormalizerIdempotence ==
    [][(call.fn = "clean_text" /\ fpc = "returned") => ret' = ret]_vars

---------------------------------------------------------------------------
(* Properties of the hints *)

\* the organization a result names: company_name of a company result,
\* current_company of a recruiter result, company of a job result; NoneStr
\* when the metadata is None or has none of them
OrganizationHint(res) ==
    LET md == Get(res, "metadata", None) IN
    IF Has(md, "company_name") THEN md.company_name
    ELSE IF Has(md, "current_company") THEN md.current_company
    ELSE IF Has(md, "company") THEN md.company
    ELSE NoneStr

\* the defaults the parsers give an organization they did not find
OrganizationPlaceholders ==
    {"Unknown Company", "Not specified", "Company Name (Manual Input)",
     "Company (Manual Input)"}

\* C21: every result without error that fetch_linkedin_job_enhanced,
\* fetch_recruiter_info or fetch_recruiter_profile returns for a text in which
\* no organization pattern matches (every page and manual text here is one)
\* names a placeholder as its organization, never nothing.
C21_HintDefault ==
    (fpc = "returned" /\ call.fn \in ManualFetchFns /\ ~HasError(ret))
        => OrganizationHint(ret) \in OrganizationPlaceholders

---------------------------------------------------------------------------
(* Properties of chunk_cv *)

\* C22: for every CV dict and every chunk_size, each chunk string that
\* chunk_cv returns has at most chunk_size characters
C22_ChunkSizeBound ==
    (call.fn = "chunk_cv" /\ fpc = "returned")
        => \A i \in 1..Len(ret.chunks) : Len(ret.chunks[i]) <= call.chunk_size

\* C29: for every CV dict and every chunk_size >= 1, each iteration of the
\* splitting loop leaves a strictly shorter remaining text, also when the
\* remaining text begins with a line break
C29_ChunkCvTerminates ==
    [][(call.fn = "chunk_cv" /\ fpc = "while" /\ fpc' = "while"
            /\ locals'.item = locals.item)
        => Len(locals'.text) < Len(locals.text)]_vars

---------------------------------------------------------------------------
(* Properties of the strategies within one resolution *)

\* the attempts of the call in progress that ran the function `strategy`:
\* the try block of that strategy, and for _scrape_unauthenticated also the
\* public endpoint of a company url, which is served by the same function
InvocationsOf(strategy) ==
    {i \in 1..Len(attempted) :
        \/ attempted[i].strategy = strategy
        \/ /\ strategy = "_scrape_unauthenticated"
           /\ attempted[i].strategy = "_scrape_public_endpoint"
           /\ PublicEndpointKind(call.url) = "crawl"}

\* C23: within one scrape_with_fallback each strategy (unauthenticated
\* render, public endpoint, alternative sources) is invoked at most once and
\* a strategy that failed is followed by the next one of the list, for job,
\* company and recruiter urls alike
C23_NoRetries ==
    IsScrapeCall =>
        /\ \A i \in 1..Len(StrategyRank) :
              Cardinality(InvocationsOf(StrategyRank[i])) <= 1
        /\ \A i \in 1..Len(attempted) : attempted[i].strategy = StrategyRank[i]

---------------------------------------------------------------------------
(* Properties of the rendering contexts and of the logins *)

IsProfileScrape == call.fn = "scrape_linkedin_profile_enhanced"

\* the contexts of one kind opened so far
ContextsOf(kind) == {i \in 1..Len(contexts) : contexts[i].kind = kind}

\* C24: every crawler and every login tab is closed when the strategy or the
\* login attempt that opened it has ended, and every context, the browser
\* included, is closed when the resolution has ended, whether it returned
\* content, an error or raised; so no open context is left for a later
\* resolution
C24_ContextTeardown ==
    /\ \A i \in ContextsOf("crawler") \cup ContextsOf("tab") : contexts[i].closed
    /\ fpc \in {"scraped", "returned"} => \A i \in 1..Len(contexts) : contexts[i].closed

\* a profile resolution that failed after a browser and three login tabs
\* were opened
C24_Witness ==
    /\ IsProfileScrape
    /\ fpc = "returned"
    /\ HasError(ret)
    /\ Cardinality(ContextsOf("browser")) = 1
    /\ Cardinality(ContextsOf("tab")) = TabMaxRetries

\* the login loop whose attempts are `outcomes` has returned True
LoginSucceeded(outcomes) == outcomes # << >> /\ LoginReturns(outcomes[Len(outcomes)])

\* a login needed by the first page has been given up
LoginsFailed ==
    /\ fpc \in {"final", "returned"}
    /\ Has(locals, "first")
    /\ locals.first.url_kind = "login" \/ check_auth_status(locals.first) = "False"
    /\ ~locals.tab_login
    /\ ~locals.modal_login

\* a sign-in selector is visible and no signed-in selector is
SignInOverlay(page) == ~page.signed_in_marker /\ page.wall_marker

\* the modal login ran all its attempts and none went through
ModalLoginGivenUp == Len(locals.modal) = ModalMaxRetries /\ ~LoginSucceeded(locals.modal)

\* enhanced_tab_login makes at most max_retries attempts, returns True at
\* the first attempt whose navigation leaves the login page and False only
\* after max_retries failed attempts
TabLoginBounded ==
    /\ Len(locals.tab) <= TabMaxRetries
    /\ \A i \in 1..Len(locals.tab) :
          locals.tab[i] = "navigated" => i = Len(locals.tab) /\ locals.tab_login
    /\ locals.tab_login <=> LoginSucceeded(locals.tab)
    /\ (fpc \in {"final", "returned"} /\ locals.tab # << >> /\ ~locals.tab_login)
          => Len(locals.tab) = TabMaxRetries

\* when every login has failed the result is an error without page content
FailedLoginIsError ==
    (fpc = "returned" /\ LoginsFailed)
        => /\ HasError(ret)
           /\ ~Has(ret, "metadata")
           /\ ~Has(ret, "markdown")

\* C30 as stated: enhanced_tab_login makes at most max_retries attempts,
\* returns True at the first attempt that leaves the login page and False
\* after max_retries failed ones; whenever the sign-in overlay is detected
\* the modal login is tried before the tab login; and when every login has
\* failed the result is an error without page content
C30_ModalBeforeTabOnOverlay ==
    (IsProfileScrape /\ Has(locals, "tab")) =>
        /\ TabLoginBounded
        /\ (SignInOverlay(locals.first) /\ locals.tab # << >>) => ModalLoginGivenUp
        /\ FailedLoginIsError

\* C30, amended: as above, but the modal login comes before the tab login
\* only on a page whose address holds neither /login nor /checkpoint; on
\* such an address the tab login is the only login tried, whatever selector
\* is visible
C30_BoundedLoginEscalation ==
    (IsProfileScrape /\ Has(locals, "tab")) =>
        /\ TabLoginBounded
        /\ (locals.tab # << >> /\ locals.first.url_kind # "login")
              => check_auth_status(locals.first) = "False" /\ ModalLoginGivenUp
        /\ (locals.first.url_kind = "login") => locals.modal = << >>
        /\ FailedLoginIsError

\* the overlay was found, the modal login failed twice, the tab login three
\* times, and the error result has been returned
C30_Witness ==
    /\ IsProfileScrape
    /\ fpc = "returned"
    /\ LoginsFailed
    /\ locals.first.url_kind # "login"
    /\ Len(locals.modal) = ModalMaxRetries
    /\ Len(locals.tab) = TabMaxRetries
    /\ ret = ScrapingFailed(call.url)

---------------------------------------------------------------------------
(* Properties of the experience items *)

\* C26: clean_text keeps the line breaks between the sections of an item, so
\* parse_experience_item applied to what clean_text returns finds the title,
\* the organization and the description that it finds in the text itself
C26_LineBreaksPreserved ==
    (call.fn = "process_extracted_data" /\ fpc = "returned")
        => LET direct == parse_experience_item(call.experience) IN
           /\ direct # EmptyDict => Len(ret.experience) = 1
           /\ \A field \in {"title", "organization", "description"} :
                 Has(direct, field) => /\ ret.experience # << >>
                                       /\ Has(ret.experience[1], field)

---------------------------------------------------------------------------
(* Properties of the hint loops *)

\* the hint loops: the field each one fills
HintFields(fn) ==
    IF fn = "parse_company_content" THEN {"company_name", "industry", "headquarters"}
    ELSE {"recruiter_name", "location"}

\* the list of patterns a loop goes through
HintTable(field) ==
    CASE field \in {"company_name", "recruiter_name"} -> "name_matches"
      [] field = "industry" -> "industry_matches"
      [] OTHER -> "location_matches"

\* the test a loop puts on a capture before it keeps it
HintAccepts(field, c) ==
    CASE field = "company_name" -> CapLen(c) > 1 /\ CapLen(c) < 100
      [] field = "industry" -> CapLen(c) > 3 /\ CapLen(c) < 50
      [] field = "headquarters" -> CapLen(c) > 2 /\ CapLen(c) < 100
      [] field = "recruiter_name" -> CapLen(c) > 2 /\ CapLen(c) < 50 /\ ~HasProfileWord(c)
      [] OTHER -> CapLen(c) > 2 /\ CapLen(c) < 50

\* the value a loop makes of the capture it keeps
HintValue(field, c) ==
    IF field \in {"company_name", "recruiter_name"} THEN RemoveLinkedInSuffix(c) ELSE c

\* a parser has returned for a page in which patterns of the list of `field` match
HintLoopRan(field) ==
    /\ call.fn \in {"parse_company_content", "parse_authenticated_recruiter_profile"}
    /\ fpc = "returned"
    /\ field \in HintFields(call.fn)
    /\ Has(call.content, HintTable(field))

\* the patterns of the list of `field` that match, and those whose capture is kept
MatchedPatterns(field) ==
    {i \in DOMAIN call.content[HintTable(field)] : call.content[HintTable(field)][i] # NoMatch}

KeptPatterns(field) ==
    {i \in MatchedPatterns(field) : HintAccepts(field, call.content[HintTable(field)][i])}

\* C25 as stated: in each hint loop the value returned is the capture of the
\* first pattern of the list that matches; the match of a later pattern is
\* never used when an earlier pattern matched
C25_FirstMatchWins ==
    \A field \in {"company_name", "industry", "headquarters", "recruiter_name", "location"} :
        (HintLoopRan(field) /\ MatchedPatterns(field) # {})
            => \E i \in MatchedPatterns(field) :
                  /\ \A j \in MatchedPatterns(field) : i <= j
                  /\ ret[field] \in {call.content[HintTable(field)][i],
                                     HintValue(field, call.content[HintTable(field)][i])}

\* C25, amended: in each hint loop the value returned comes from the first
\* pattern of the list whose capture passes the test of the loop (the length
\* bounds, and for the recruiter name no profile word); a pattern that
\* matches with a capture the test rejects is passed over, and the match of
\* a later pattern is then used
C25_FirstKeptWins ==
    \A field \in {"company_name", "industry", "headquarters", "recruiter_name", "location"} :
        (HintLoopRan(field) /\ KeptPatterns(field) # {})
            => \E i \in KeptPatterns(field) :
                  /\ \A j \in KeptPatterns(field) : i <= j
                  /\ ret[field] = HintValue(field, call.content[HintTable(field)][i])

\* the company name loop passed over a first pattern whose capture was too
\* short and returned the capture of a later one, although a third pattern
\* matched too
C25_Witness ==
    /\ HintLoopRan("company_name")
    /\ call.content.name_matches[1] = "A"
    /\ call.content.name_matches[2] = "Acme Corp | LinkedIn"
    /\ call.content.name_matches[3] = "IT"
    /\ ret.company_name = "Acme Corp"

---------------------------------------------------------------------------
(* Properties of the session: artifacts and stored manual texts *)

\* one of match_results, cover_letter, recruiter_message is set and not empty
ArtifactPresent(ss) ==
    \/ TruthyDict(Get(ss, "match_results", None))
    \/ TruthyStr(Get(ss, "cover_letter", None))
    \/ TruthyStr(Get(ss, "recruiter_message", None))

\* cv_struct and job_struct are both set and not empty
InputsPresent(ss) ==
    /\ TruthyDict(Get(ss, "cv_struct", None))
    /\ TruthyDict(Get(ss, "job_struct", None))

\* C27: in every session state reached by Analyze, manual text submits,
\* Generate Cover Letter, Generate Recruiter Message and Reset, a non-empty
\* match_results, cover_letter or recruiter_message comes with a non-empty
\* cv_struct and a non-empty job_struct
C27_ArtifactsImplyInputs ==
    ArtifactPresent(session_state) => InputsPresent(session_state)

\* a session at rest that holds all three artifacts
C27_Witness ==
    /\ pc = "idle"
    /\ TruthyDict(Get(session_state, "match_results", None))
    /\ TruthyStr(Get(session_state, "cover_letter", None))
    /\ TruthyStr(Get(session_state, "recruiter_message", None))
    /\ InputsPresent(session_state)

ManualTextSlots == {"manual_job_text", "manual_company_text", "manual_recruiter_text"}

\* the job fetch of an Analyze run has returned while a non-blank manual job
\* text is stored
StoredTextFetchReturned ==
    /\ pc = "job_wait"
    /\ fpc = "returned"
    /\ NonBlank(session_state.manual_job_text)

\* the fetch took the manual branch: no strategy ran, no error is reported
ManualBranchTaken == attempted = << >> /\ ~HasError(ret)

\* the stored text is what the job is resolved from: the result carries the
\* text made of it
ResolvedFromText == Has(ret, "markdown") /\ ret.markdown # None /\ TruthyStr(ret.markdown)

\* no step but Reset All Data leaves a stored manual text blank
ManualTextsKept ==
    \A slot \in ManualTextSlots :
        (Has(session_state, slot) /\ NonBlank(session_state[slot]) /\ pc' # "reset_rerun")
            => Has(session_state', slot) /\ NonBlank(session_state'[slot])

\* C28: once a non-blank manual job text is stored, every later Analyze
\* resolves the job from that text and runs no scraping strategy, whatever
\* the job URL, until Reset All Data; and Analyze never clears
\* manual_job_text, manual_company_text or manual_recruiter_text
C28_StoredManualTextSticky ==
    /\ [](StoredTextFetchReturned => ManualBranchTaken /\ ResolvedFromText)
    /\ [][ManualTextsKept]_vars

====
